---- MODULE Spec2Model ----
(***************************************************************************)
(* NExS spreadsheet MCP server (server.ts): the module-level session store *)
(* and the tool handlers that read and write it, interleaved at their      *)
(* await points, together with the NExS platform they call and the         *)
(* embedded iframe whose session the App View relays.                      *)
(*                                                                         *)
(* Strings are sequences of one-character strings, so that indexOf,        *)
(* slice, toUpperCase and endsWith are computed, not assumed.  A nullable  *)
(* value is <<>> (null) or <<x>>.                                          *)
(***************************************************************************)
EXTENDS Integers, Sequences, FiniteSets, TLC

\* ------------------------------------------------------------------ bounds
MaxSid == 3        \* platform sessions ever created (backend inits + iframe mounts)
MaxRev == 2        \* highest revision a platform session reaches
MaxVal == 1        \* values written by the agent or the user are 1..MaxVal (published: 0)
MaxPending == 1    \* render-initiated nexsInit calls in flight at once
MaxWrites == 3     \* writes set_cell accepts in the relay specification
MaxMounts == 2     \* iframes the view mounts in the relay specification
MaxNow == 1        \* latest time, in poll intervals of 200 ms, at which get_cell's wait begins
WaitPolls == 2     \* poll intervals in get_cell's deadline (6000 ms in the code)
MaxCalls == 1      \* update_nexs_cells calls of the view in flight at once
MaxResults == 1    \* tool results the host holds for the view at once

Vals == 1..MaxVal

\* ----------------------------------------------------------------- strings
None == <<>>
Some(x) == <<x>>

S1 == <<"S", "1">>
S2 == <<"S", "2">>
Bang == "!"

UpperChar(c) ==
  CASE c = "a" -> "A"
    [] c = "b" -> "B"
    [] c = "z" -> "Z"
    [] OTHER -> c

\* String.prototype.toUpperCase
ToUpperCase(s) == [i \in 1..Len(s) |-> UpperChar(s[i])]

\* String.prototype.indexOf for a single character; 0 when absent (code: -1)
IndexOf(s, c) ==
  IF \E i \in 1..Len(s) : s[i] = c
  THEN CHOOSE i \in 1..Len(s) : s[i] = c /\ \A j \in 1..(i - 1) : s[j] # c
  ELSE 0

\* String.prototype.endsWith
EndsWith(s, suffix) ==
  /\ Len(suffix) <= Len(s)
  /\ SubSeq(s, Len(s) - Len(suffix) + 1, Len(s)) = suffix

\* extractNexsUuid: the first path segment that is a UUID, or null.
\* A URL is its sequence of path segments; UUID segments are those of AppUuids.
AppA == <<"uuid-a">>
AppB == <<"uuid-b">>
AppUuids == {AppA, AppB}
UrlA == <<<<"platform.nexs.com">>, <<"app">>, AppA>>
UrlB == <<<<"platform.nexs.com">>, <<"app">>, AppB>>
UrlNoUuid == <<<<"platform.nexs.com">>, <<"about">>>>
Urls == {UrlA, UrlNoUuid}

extractNexsUuid(url) ==
  IF \E i \in 1..Len(url) : url[i] \in AppUuids
  THEN Some(url[CHOOSE i \in 1..Len(url) :
                  url[i] \in AppUuids /\ \A j \in 1..(i - 1) : url[j] \notin AppUuids])
  ELSE None

\* parseCellRef: split at the first "!"
parseCellRef(cellRef) ==
  LET bangIdx == IndexOf(cellRef, Bang) IN
  IF bangIdx # 0
  THEN [sheet |-> Some(SubSeq(cellRef, 1, bangIdx - 1)),
        cell |-> SubSeq(cellRef, bangIdx + 1, Len(cellRef))]
  ELSE [sheet |-> None, cell |-> cellRef]

\* variant of the key that keeps the address as it was given
CacheKey_AsGiven(sn, addr) == sn \o <<Bang>> \o addr

\* `${sn}!${addr.toUpperCase()}`
CacheKey(sn, addr) == sn \o <<Bang>> \o ToUpperCase(addr)

\* ---------------------------------------------------------------- platform
\* The published app: sheet S1 has the editable cell A1; sheet S2 has the
\* formula cell a1 = S1!A1, which the platform reports with a lower-case address.
\* The first view is invisible, the second is the first visible one.
AppViews == << [sheetName |-> S2, isInvisible |-> TRUE],
               [sheetName |-> S1, isInvisible |-> FALSE] >>

CellA1(v) == [sn |-> S1, ci |-> [addr |-> <<"A", "1">>, data |-> v]]
CellS2(v) == [sn |-> S2, ci |-> [addr |-> <<"a", "1">>, data |-> v]]

\* values[] of an init response for a session whose input cell holds v
Snapshot(v) == << CellA1(v), CellS2(v) >>

\* values[] of an interact response: the cells changed since revision `since`
Delta(p, since) == IF since < p.rev THEN << CellA1(p.val), CellS2(p.val) >> ELSE << >>

\* a write input addresses the editable cell
IsEditable(input) == input.sheet = S1 /\ ToUpperCase(input.addr) = <<"A", "1">>

\* ------------------------------------------------------------------- state
VARIABLES
  lastSpreadsheetUrl,  \* server.ts: let lastSpreadsheetUrl (<<>> = null)
  nexsSession,         \* server.ts: let nexsSession (<<>> = null, <<s>> = session s)
  pendingInit,         \* appUuids of render's nexsInit calls still in flight
  getCell,             \* the get_cell handler in progress
  setCell,             \* the set_cell handler in progress
  platform,            \* platform sessions: platform[sid] = [rev, val]
  frameSid,            \* session of the mounted iframe (0 = no iframe)
  afterWrite           \* history: <<changed>> of the write the platform has applied
                       \* for set_cell, while nothing has run since but that
                       \* set_cell's return and a get_cell called after it

\* the browser relay of agent writes into the iframe
VARIABLES
  pendingDisplayInputs,  \* server: set_cell inputs awaiting replay into the iframe
  iframe,                \* view: the iframe element in root (0 = none, k = k-th mounted)
  iframeSrc,             \* view: iframe.src
  drain,                 \* view: the setInterval callback in progress
  posted,                \* history: messages posted to a frame's contentWindow
  toolResults,           \* set_cell results the host may still hand to the view
  accepted               \* history: inputs of the set_cell calls that succeeded

\* the seeding of the cache by the iframe's messages (server of part_000, view
\* of part_002)
VARIABLES
  now,        \* Date.now(), in poll intervals of 200 ms
  echoes,     \* history: origins a "hello" was echoed to
  parses,     \* history: origins whose payload went through JSON.parse
  callers,    \* history: origins whose message led to a call of update_nexs_cells
  viewCalls   \* update_nexs_cells calls of the view in flight

\* the App View's mounting of the iframe (view of part_002)
VARIABLES
  root,         \* the content of the root element: loading placeholder, iframe or error
  mounted,      \* let mounted
  capturedUrl,  \* let capturedUrl (<<>> = null)
  inbox,        \* tool results the host has still to hand to app.ontoolresult
  timer,        \* the refresh-recovery setTimeout callback
  inits         \* history: number of {op: "init"} instructions posted to an iframe

viewVars == <<root, mounted, capturedUrl, inbox, timer, inits>>
seedVars == <<now, echoes, parses, callers, viewCalls>>
serverVars == <<lastSpreadsheetUrl, nexsSession, pendingInit, getCell, setCell,
                platform, frameSid, afterWrite>>
relayVars == <<pendingDisplayInputs, iframe, iframeSrc, drain, posted, toolResults,
              accepted>>
vars == <<lastSpreadsheetUrl, nexsSession, pendingInit, getCell, setCell,
          platform, frameSid, afterWrite,
          pendingDisplayInputs, iframe, iframeSrc, drain, posted, toolResults,
          accepted, now, echoes, parses, callers, viewCalls,
          root, mounted, capturedUrl, inbox, timer, inits>>

HasSession == nexsSession # None
Sess == nexsSession[1]


\* ------------------------------------------------------------ session store
\* Map.prototype.has / get / set on the insertion-ordered cellCache
CacheHas(cache, key) == \E i \in 1..Len(cache) : cache[i].key = key

CacheGet(cache, key) ==
  IF CacheHas(cache, key)
  THEN Some(cache[CHOOSE i \in 1..Len(cache) : cache[i].key = key])
  ELSE None

CacheSet(cache, key, sn, ci) ==
  LET e == [key |-> key, sheetName |-> sn, ci |-> ci] IN
  IF CacheHas(cache, key)
  THEN [i \in 1..Len(cache) |-> IF cache[i].key = key THEN e ELSE cache[i]]
  ELSE Append(cache, e)

\* for (const [sn, ci] of values) cache.set(`${sn}!${ci.addr.toUpperCase()}`, ...)
RECURSIVE MergeValues(_, _)
MergeValues(cache, values) ==
  IF values = << >> THEN cache
  ELSE LET e == Head(values) IN
       MergeValues(CacheSet(cache, CacheKey(e.sn, e.ci.addr), e.sn, e.ci), Tail(values))

\* variant of buildCellCache that leaves out the last value
buildCellCache_DropLast(values) ==
  MergeValues(<< >>, SubSeq(values, 1, Len(values) - 1))

buildCellCache(values) == MergeValues(<< >>, values)

\* update_nexs_cells: the cells of one view, each under `${sheetName}!${addr.toUpperCase()}`
RECURSIVE PatchView(_, _, _)
PatchView(cache, sheetName, pairs) ==
  IF pairs = << >> THEN cache
  ELSE PatchView(CacheSet(cache, CacheKey(sheetName, Head(pairs).addr), sheetName,
                          Head(pairs).ci),
                 sheetName, Tail(pairs))

\* variant of update_nexs_cells that stores the cells of a view index without a
\* view under the sheet of the session's last view
RECURSIVE UpdateNexsCells_NoSkip(_, _, _)
UpdateNexsCells_NoSkip(session, cells, viewIdx) ==
  IF viewIdx > Len(cells) THEN session
  ELSE UpdateNexsCells_NoSkip(
         IF viewIdx <= Len(session.views) /\ session.views[viewIdx].sheetName # << >>
         THEN [session EXCEPT !.cellCache =
                 PatchView(@, session.views[viewIdx].sheetName, cells[viewIdx])]
         ELSE IF session.views # << >>
         THEN [session EXCEPT !.cellCache =
                 PatchView(@, session.views[Len(session.views)].sheetName, cells[viewIdx])]
         ELSE session,
         cells, viewIdx + 1)

\* update_nexs_cells: cells[viewIdx] goes to the sheet of views[viewIdx]; a
\* view index the session has no view for is skipped
RECURSIVE UpdateNexsCells(_, _, _)
UpdateNexsCells(session, cells, viewIdx) ==
  IF viewIdx > Len(cells) THEN session
  ELSE UpdateNexsCells(
         IF viewIdx <= Len(session.views) /\ session.views[viewIdx].sheetName # << >>
         THEN [session EXCEPT !.cellCache =
                 PatchView(@, session.views[viewIdx].sheetName, cells[viewIdx])]
         ELSE session,
         cells, viewIdx + 1)

\* variant of applyDelta that pushes the changed cells onto the cache instead
\* of setting their keys
applyDelta_Push(session, result) ==
  [session EXCEPT
     !.cellCache = @ \o [i \in 1..Len(result.values) |->
                           [key |-> CacheKey(result.values[i].sn, result.values[i].ci.addr),
                            sheetName |-> result.values[i].sn, ci |-> result.values[i].ci]],
     !.revision = result.revision]

applyDelta(session, result) ==
  [session EXCEPT !.cellCache = MergeValues(@, result.values),
                  !.revision = result.revision]

\* variant of the backfill loop that overwrites the keys the cache holds
RECURSIVE Backfill_Overwrite(_, _)
Backfill_Overwrite(cache, values) ==
  IF values = << >> THEN cache
  ELSE LET e == Head(values) IN
       Backfill_Overwrite(CacheSet(cache, CacheKey(e.sn, e.ci.addr), e.sn, e.ci),
                          Tail(values))

\* render's backfill loop: only keys the cache does not hold yet
RECURSIVE Backfill(_, _)
Backfill(cache, values) ==
  IF values = << >> THEN cache
  ELSE LET e == Head(values)
           key == CacheKey(e.sn, e.ci.addr) IN
       Backfill(IF CacheHas(cache, key) THEN cache ELSE CacheSet(cache, key, e.sn, e.ci),
                Tail(values))

\* get_cell's re-init: the init result assigned onto the session object
GetCellReinit(session, init) ==
  [session EXCEPT !.sessionId = init.sessionId, !.revision = init.revision,
                  !.views = init.views,
                  !.cellCache = buildCellCache(init.values)]

\* the session object literal built from an init result
SessionFromInit(appUuid, init) ==
  [appUuid |-> appUuid, sessionId |-> init.sessionId, revision |-> init.revision,
   views |-> init.views, cellCache |-> buildCellCache(init.values),
   fromBrowser |-> FALSE]

\* render_nexs_spreadsheet: the .then() continuation of nexsInit(appUuid)
RenderInitThen(session, appUuid, init) ==
  IF session # None /\ session[1].fromBrowser
  THEN Some([session[1] EXCEPT !.cellCache = Backfill(@, init.values)])
  ELSE Some(SessionFromInit(appUuid, init))

\* variant of the merge loop that appends every entry instead of setting its key
RECURSIVE MergeReported_Append(_, _)
MergeReported_Append(cache, values) ==
  IF values = << >> THEN cache
  ELSE LET e == Head(values) IN
       MergeReported_Append(
         IF e.sn # << >> /\ e.ci.addr # << >>
         THEN Append(cache, [key |-> CacheKey(e.sn, e.ci.addr), sheetName |-> e.sn, ci |-> e.ci])
         ELSE cache,
         Tail(values))

\* set_nexs_session's merge loop: entries without sheet name or address are skipped
RECURSIVE MergeReported(_, _)
MergeReported(cache, values) ==
  IF values = << >> THEN cache
  ELSE LET e == Head(values) IN
       MergeReported(IF e.sn # << >> /\ e.ci.addr # << >>
                     THEN CacheSet(cache, CacheKey(e.sn, e.ci.addr), e.sn, e.ci)
                     ELSE cache,
                     Tail(values))

\* variant of set_nexs_session that builds a new session from every report
SetNexsSession_Fresh(session, lastUrl, args) ==
  LET appUuid == IF session # None THEN Some(session[1].appUuid)
                 ELSE IF lastUrl # None THEN extractNexsUuid(lastUrl) ELSE None
  IN
  IF appUuid = None THEN session
  ELSE Some([appUuid |-> appUuid[1], sessionId |-> args.session_id,
             revision |-> args.revision, views |-> args.views,
             cellCache |-> MergeReported(<< >>, args.values), fromBrowser |-> TRUE])

\* variant of set_nexs_session whose created session is not marked fromBrowser
SetNexsSession_NotLive(session, lastUrl, args) ==
  LET appUuid == IF session # None THEN Some(session[1].appUuid)
                 ELSE IF lastUrl # None THEN extractNexsUuid(lastUrl) ELSE None
  IN
  IF appUuid = None THEN session
  ELSE LET base ==
             IF session # None
             THEN [session[1] EXCEPT !.sessionId = args.session_id,
                                     !.revision = args.revision,
                                     !.fromBrowser = TRUE,
                                     !.views = IF Len(args.views) > 0 THEN args.views ELSE @]
             ELSE [appUuid |-> appUuid[1], sessionId |-> args.session_id,
                   revision |-> args.revision, views |-> args.views,
                   cellCache |-> << >>, fromBrowser |-> FALSE]
       IN Some([base EXCEPT !.cellCache = MergeReported(@, args.values)])

\* set_nexs_session handler, as a function of the store
SetNexsSession(session, lastUrl, args) ==
  LET appUuid == IF session # None THEN Some(session[1].appUuid)
                 ELSE IF lastUrl # None THEN extractNexsUuid(lastUrl) ELSE None
  IN
  IF appUuid = None THEN session
  ELSE LET base ==
             IF session # None
             THEN [session[1] EXCEPT !.sessionId = args.session_id,
                                     !.revision = args.revision,
                                     !.fromBrowser = TRUE,
                                     !.views = IF Len(args.views) > 0 THEN args.views ELSE @]
             ELSE [appUuid |-> appUuid[1], sessionId |-> args.session_id,
                   revision |-> args.revision, views |-> args.views,
                   cellCache |-> << >>, fromBrowser |-> TRUE]
       IN Some([base EXCEPT !.cellCache = MergeReported(@, args.values)])

\* sheet ?? parsedSheet ?? views.find((v) => !v.isInvisible)?.sheetName ?? null
\* variant that takes the first view, visible or not
FirstVisible_FirstView(views) ==
  IF views # << >> THEN Some(views[1].sheetName) ELSE None

\* variant of the resolution that falls back to sheet S1 when nothing resolves
ResolveSheet_Default(sheet, parsedSheet, views) ==
  IF sheet # None THEN sheet
  ELSE IF parsedSheet # None THEN parsedSheet
  ELSE IF \E i \in 1..Len(views) : ~views[i].isInvisible
  THEN Some(views[CHOOSE i \in 1..Len(views) :
                    ~views[i].isInvisible /\ \A j \in 1..(i - 1) : views[j].isInvisible].sheetName)
  ELSE Some(S1)

FirstVisible(views) ==
  IF \E i \in 1..Len(views) : ~views[i].isInvisible
  THEN Some(views[CHOOSE i \in 1..Len(views) :
                    ~views[i].isInvisible /\ \A j \in 1..(i - 1) : views[j].isInvisible].sheetName)
  ELSE None

ResolveSheet(sheet, parsedSheet, views) ==
  IF sheet # None THEN sheet
  ELSE IF parsedSheet # None THEN parsedSheet
  ELSE FirstVisible(views)

\* variant of the search over all sheets that keeps the last match
CacheFind_LastMatch(cache, sheetName, cellAddr) ==
  IF sheetName # None /\ sheetName[1] # << >>
  THEN CacheGet(cache, CacheKey(sheetName[1], cellAddr))
  ELSE LET suffix == <<Bang>> \o ToUpperCase(cellAddr) IN
       IF \E i \in 1..Len(cache) : EndsWith(cache[i].key, suffix)
       THEN Some(cache[CHOOSE i \in 1..Len(cache) :
                        /\ EndsWith(cache[i].key, suffix)
                        /\ \A j \in (i + 1)..Len(cache) : ~EndsWith(cache[j].key, suffix)])
       ELSE None

\* get_cell: "Search the cache"
CacheFind(cache, sheetName, cellAddr) ==
  IF sheetName # None /\ sheetName[1] # << >>
  THEN CacheGet(cache, CacheKey(sheetName[1], cellAddr))
  ELSE LET suffix == <<Bang>> \o ToUpperCase(cellAddr) IN
       IF \E i \in 1..Len(cache) : EndsWith(cache[i].key, suffix)
       THEN Some(cache[CHOOSE i \in 1..Len(cache) :
                        /\ EndsWith(cache[i].key, suffix)
                        /\ \A j \in 1..(i - 1) : ~EndsWith(cache[j].key, suffix)])
       ELSE None

\* [...new Set([...cache.values()].map((v) => v.sheetName))]
RECURSIVE KnownSheets(_)
KnownSheets(cache) ==
  IF cache = << >> THEN << >>
  ELSE LET rest == KnownSheets(SubSeq(cache, 1, Len(cache) - 1))
           sn == cache[Len(cache)].sheetName IN
       IF \E i \in 1..Len(rest) : rest[i] = sn THEN rest ELSE Append(rest, sn)

NoAddr == << >>
GetResult(kind, sheet, addr, value, sheets) ==
  [kind |-> kind, sheet |-> sheet, addr |-> addr, value |-> value, sheets |-> sheets]

\* get_cell from "Search the cache" to its return
GetCellLookup(session, sheetName, cellAddr) ==
  LET found == CacheFind(session.cellCache, sheetName, cellAddr) IN
  IF found = None
  THEN GetResult("CellNotFound", << >>, NoAddr, 0, KnownSheets(session.cellCache))
  ELSE GetResult("ok", found[1].sheetName, found[1].ci.addr, found[1].ci.data, << >>)

\* nexsInteract's request body, read from the session at the time of the call
InteractRequest(session, inputs) ==
  [appUuid |-> session.appUuid, sessionId |-> session.sessionId,
   revision |-> session.revision, inputs |-> inputs]


\* ------------------------------------------------------- platform behaviour
\* nexsInit on success: a new platform session holding the published values
InitResult(plat) ==
  [sessionId |-> Len(plat) + 1, revision |-> 1, views |-> AppViews,
   values |-> Snapshot(0)]

NewPlatformSession(plat) == Append(plat, [rev |-> 1, val |-> 0])

FailedResponse == [ok |-> FALSE, revision |-> 0, values |-> << >>]

\* what the platform can do with an interact request: fail, or answer with the
\* cells changed since the request's baseline after applying its write
PlatformOutcomes(plat, req) ==
  LET p == plat[req.sessionId]
      writes == req.inputs # << >> /\ IsEditable(req.inputs[1])
      q == IF writes THEN [rev |-> p.rev + 1, val |-> req.inputs[1].value] ELSE p
  IN {[resp |-> FailedResponse, plat |-> plat]}
     \cup (IF writes /\ p.rev >= MaxRev THEN {}
           ELSE {[resp |-> [ok |-> TRUE, revision |-> q.rev,
                            values |-> Delta(q, req.revision)],
                  plat |-> [plat EXCEPT ![req.sessionId] = q]]})

\* ------------------------------------------------------------- tool inputs
GetRefs == { <<"a", "1">>, <<"S", "2", "!", "A", "1">> }
SetRefs == { <<"a", "1">> }
GetSheetArgs == { None }
SetSheetArgs == { None }

\* the iframe's updateCellMap: per view, the changed cells under their address
\* as the iframe spells it
CellMaps ==
  { << << [addr |-> <<"a", "1">>, ci |-> CellS2(v).ci] >>,
       << [addr |-> <<"a", "1">>, ci |-> CellA1(v).ci] >> >> : v \in 0..MaxVal }

MalformedEntry == [sn |-> << >>, ci |-> [addr |-> <<"A", "1">>, data |-> 0]]

\* what the iframe's message can carry for a frame session whose input holds v:
\* the whole snapshot with the views, or a partial list (one entry of it
\* without a sheet name) and no views
ReportShapes(v) ==
  { [values |-> Snapshot(v), views |-> AppViews],
    [values |-> << MalformedEntry, CellA1(v) >>, views |-> << >>] }

\* ---------------------------------------------------------- handler records
\* forSid: the sessionId in the payload of the interact request whose response
\* the handler awaits or holds (0 = none)
GetIdle ==
  [pc |-> "idle", sheetName |-> None, cellAddr |-> << >>, req |-> None,
   resp |-> None, forSid |-> 0, nInit |-> 0, path |-> "", result |-> None]

SetIdle ==
  [pc |-> "idle", sheetName |-> << >>, cellAddr |-> << >>, value |-> 0,
   req |-> None, resp |-> None, forSid |-> 0, nInteract |-> 0, nInit |-> 0,
   result |-> None]

SetResult(kind, revision, changed) ==
  [kind |-> kind, revision |-> revision, changed |-> changed]

\* result.values.map(([sn, ci]) => ({sheet: sn, addr: ci.addr, value: ci.data, ...}))
Changed(values) ==
  [i \in 1..Len(values) |->
     [sheet |-> values[i].sn, addr |-> values[i].ci.addr, value |-> values[i].ci.data]]

\* a handler's result is handed to the transport by its return statement: the
\* "done" position only exposes the result, nothing runs while it is held
Returned == getCell.pc # "done" /\ setCell.pc # "done"

DrainIdle == [pc |-> "idle", frame |-> 0, inputs |-> << >>]

\* the relay before any write: nothing queued, nothing mounted, no timer callback
RelayIdle ==
  /\ pendingDisplayInputs = << >>
  /\ iframe = 0
  /\ iframeSrc = None
  /\ drain = DrainIdle
  /\ posted = << >>
  /\ toolResults = {}
  /\ accepted = << >>

\* the view's listener has handled no message, no call is in flight
SeedIdle ==
  /\ now = 0
  /\ echoes = {}
  /\ parses = {}
  /\ callers = {}
  /\ viewCalls = << >>

\* the root element as the page is served: the loading placeholder
\* (n: iframes mounted so far; url: history, the URL the iframe was mounted for)
RootLoading == [kind |-> "loading", n |-> 0, src |-> None, url |-> None, initSent |-> FALSE]
TimerArmed == [pc |-> "armed", url |-> None]

\* the view after app.connect(): nothing mounted, the recovery timer armed
ViewIdle ==
  /\ root = RootLoading
  /\ mounted = FALSE
  /\ capturedUrl = None
  /\ inbox = {}
  /\ timer = TimerArmed
  /\ inits = 0

Init ==
  /\ lastSpreadsheetUrl = None
  /\ nexsSession = None
  /\ pendingInit = << >>
  /\ getCell = GetIdle
  /\ setCell = SetIdle
  /\ platform = << >>
  /\ frameSid = 0
  /\ afterWrite = None
  /\ RelayIdle
  /\ SeedIdle
  /\ ViewIdle

\* --------------------------------------------------- render_nexs_spreadsheet
Render(url) ==
  LET appUuid == extractNexsUuid(url) IN
  /\ Returned
  /\ appUuid # None => Len(pendingInit) < MaxPending
  /\ lastSpreadsheetUrl' = url
  /\ pendingInit' = IF appUuid # None THEN Append(pendingInit, appUuid[1]) ELSE pendingInit
  /\ UNCHANGED <<nexsSession, getCell, setCell, platform, frameSid>>
  /\ UNCHANGED <<relayVars, seedVars, viewVars>>
  /\ afterWrite' = None

RemoveAt(seq, i) == SubSeq(seq, 1, i - 1) \o SubSeq(seq, i + 1, Len(seq))

RenderInitOk(i) ==
  /\ Returned
  /\ i \in 1..Len(pendingInit)
  /\ Len(platform) < MaxSid
  /\ nexsSession' = RenderInitThen(nexsSession, pendingInit[i], InitResult(platform))
  /\ platform' = NewPlatformSession(platform)
  /\ pendingInit' = RemoveAt(pendingInit, i)
  /\ UNCHANGED <<lastSpreadsheetUrl, getCell, setCell, frameSid>>
  /\ UNCHANGED <<relayVars, seedVars, viewVars>>
  /\ afterWrite' = None

\* variant of the catch branch that drops the stored session
RenderInitFail_DropsSession(i) ==
  /\ Returned
  /\ i \in 1..Len(pendingInit)
  /\ pendingInit' = RemoveAt(pendingInit, i)
  /\ nexsSession' = None
  /\ UNCHANGED <<lastSpreadsheetUrl, getCell, setCell, platform, frameSid>>
  /\ UNCHANGED <<relayVars, seedVars, viewVars>>
  /\ afterWrite' = None

RenderInitFail(i) ==
  /\ Returned
  /\ i \in 1..Len(pendingInit)
  /\ pendingInit' = RemoveAt(pendingInit, i)
  /\ UNCHANGED <<lastSpreadsheetUrl, nexsSession, getCell, setCell, platform, frameSid>>
  /\ UNCHANGED <<relayVars, seedVars, viewVars>>
  /\ afterWrite' = None

\* ------------------------------------------------ the iframe and the App View
\* the view mounts the iframe of the rendered app; the iframe opens its own session
FrameMount ==
  /\ Returned
  /\ lastSpreadsheetUrl # None
  /\ extractNexsUuid(lastSpreadsheetUrl) # None
  /\ Len(platform) < MaxSid
  /\ platform' = NewPlatformSession(platform)
  /\ frameSid' = Len(platform) + 1
  /\ UNCHANGED <<lastSpreadsheetUrl, nexsSession, pendingInit, getCell, setCell>>
  /\ UNCHANGED <<relayVars, seedVars, viewVars>>
  /\ afterWrite' = None

\* the user edits the input cell in the iframe
UserEdit(v) ==
  /\ Returned
  /\ frameSid # 0
  /\ platform[frameSid].rev < MaxRev
  /\ platform' = [platform EXCEPT ![frameSid] = [rev |-> @.rev + 1, val |-> v]]
  /\ UNCHANGED <<lastSpreadsheetUrl, nexsSession, pendingInit, getCell, setCell, frameSid>>
  /\ UNCHANGED <<relayVars, seedVars, viewVars>>
  /\ afterWrite' = None

ReportArgs(values, views) ==
  [session_id |-> frameSid, revision |-> platform[frameSid].rev,
   values |-> values, views |-> views]

\* the reports the mounted iframe can send now
ReportsNow ==
  IF frameSid = 0 THEN {}
  ELSE {ReportArgs(m.values, m.views) : m \in ReportShapes(platform[frameSid].val)}

\* onNexsMessage relays the iframe's session to set_nexs_session
BrowserReport(values, views) ==
  /\ Returned
  /\ frameSid # 0
  /\ nexsSession' = SetNexsSession(nexsSession, lastSpreadsheetUrl, ReportArgs(values, views))
  /\ UNCHANGED <<lastSpreadsheetUrl, pendingInit, getCell, setCell, platform, frameSid>>
  /\ UNCHANGED <<relayVars, seedVars, viewVars>>
  /\ afterWrite' = None


\* ------------------------------------------------------------------ get_cell
\* variant that reports the missing session as an expired one
NoSessionResult_Expired == GetResult("SessionExpired", << >>, NoAddr, 0, << >>)

NoSessionResult == GetResult("NoActiveSession", << >>, NoAddr, 0, << >>)
ExpiredResult == GetResult("SessionExpired", << >>, NoAddr, 0, << >>)

\* entry up to the await of nexsInteract(..., [])
GetCellCall(cellRef, sheet) ==
  /\ Returned
  /\ getCell.pc = "idle"
  /\ IF ~HasSession
     THEN /\ getCell' = [GetIdle EXCEPT !.pc = "done", !.result = Some(NoSessionResult)]
     ELSE LET parsed == parseCellRef(cellRef) IN
          /\ getCell' = [GetIdle EXCEPT
                           !.pc = "sync",
                           !.sheetName = ResolveSheet(sheet, parsed.sheet, Sess.views),
                           !.cellAddr = parsed.cell,
                           !.req = Some(InteractRequest(Sess, << >>)),
                           !.forSid = Sess.sessionId]
  /\ UNCHANGED <<lastSpreadsheetUrl, nexsSession, pendingInit, setCell, platform, frameSid>>
  /\ UNCHANGED <<relayVars, seedVars, viewVars>>
  /\ afterWrite' = IF setCell.pc = "idle" THEN afterWrite ELSE None

\* the platform settles get_cell's poll
GetCellPollSettles ==
  /\ Returned
  /\ getCell.pc = "sync"
  /\ getCell.req # None
  /\ \E o \in PlatformOutcomes(platform, getCell.req[1]) :
       /\ getCell' = [getCell EXCEPT !.req = None, !.resp = Some(o.resp)]
       /\ platform' = o.plat
  /\ UNCHANGED <<lastSpreadsheetUrl, nexsSession, pendingInit, setCell, frameSid>>
  /\ UNCHANGED <<relayVars, seedVars, viewVars>>
  /\ UNCHANGED afterWrite

\* try-branch: applyDelta(nexsSession, delta), then the lookup
GetCellSyncOk ==
  /\ Returned
  /\ getCell.pc = "sync"
  /\ getCell.resp # None
  /\ getCell.resp[1].ok
  /\ LET s == applyDelta(Sess, getCell.resp[1]) IN
     /\ nexsSession' = Some(s)
     /\ getCell' = [getCell EXCEPT !.pc = "done", !.req = None, !.resp = None, !.forSid = 0,
                      !.path = "synced",
                      !.result = Some(GetCellLookup(s, getCell.sheetName, getCell.cellAddr))]
  /\ UNCHANGED <<lastSpreadsheetUrl, pendingInit, setCell, platform, frameSid>>
  /\ UNCHANGED <<relayVars, seedVars, viewVars>>
  /\ UNCHANGED afterWrite

\* catch-branch on a session that is not fromBrowser: await nexsInit
GetCellSyncFailReinit ==
  /\ Returned
  /\ getCell.pc = "sync"
  /\ getCell.resp # None
  /\ ~getCell.resp[1].ok
  /\ ~Sess.fromBrowser
  /\ getCell' = [getCell EXCEPT !.pc = "reinit", !.req = None, !.resp = None, !.forSid = 0,
                                !.nInit = @ + 1]
  /\ UNCHANGED <<lastSpreadsheetUrl, nexsSession, pendingInit, setCell, platform, frameSid>>
  /\ UNCHANGED <<relayVars, seedVars, viewVars>>
  /\ UNCHANGED afterWrite

\* variant of the fromBrowser catch-branch that re-initiates all the same
GetCellSyncFailExpired_Reinit ==
  /\ Returned
  /\ getCell.pc = "sync"
  /\ getCell.resp # None
  /\ ~getCell.resp[1].ok
  /\ Sess.fromBrowser
  /\ getCell' = [getCell EXCEPT !.pc = "reinit", !.req = None, !.resp = None, !.forSid = 0,
                                !.nInit = @ + 1]
  /\ UNCHANGED <<lastSpreadsheetUrl, nexsSession, pendingInit, setCell, platform, frameSid>>
  /\ UNCHANGED <<relayVars, seedVars, viewVars>>
  /\ UNCHANGED afterWrite

\* catch-branch on a fromBrowser session: report the error
GetCellSyncFailExpired ==
  /\ Returned
  /\ getCell.pc = "sync"
  /\ getCell.resp # None
  /\ ~getCell.resp[1].ok
  /\ Sess.fromBrowser
  /\ getCell' = [getCell EXCEPT !.pc = "done", !.req = None, !.resp = None, !.forSid = 0,
                                !.path = "expired",
                                !.result = Some(ExpiredResult)]
  /\ UNCHANGED <<lastSpreadsheetUrl, nexsSession, pendingInit, setCell, platform, frameSid>>
  /\ UNCHANGED <<relayVars, seedVars, viewVars>>
  /\ UNCHANGED afterWrite

\* variant of the successful re-init that keeps the old cell cache
GetCellReinitOk_KeepCache ==
  /\ Returned
  /\ getCell.pc = "reinit"
  /\ Len(platform) < MaxSid
  /\ LET init == InitResult(platform)
         s == [Sess EXCEPT !.sessionId = init.sessionId, !.revision = init.revision,
                           !.views = init.views] IN
     /\ nexsSession' = Some(s)
     /\ getCell' = [getCell EXCEPT !.pc = "done", !.path = "reinit-ok",
                      !.result = Some(GetCellLookup(s, getCell.sheetName, getCell.cellAddr))]
  /\ platform' = NewPlatformSession(platform)
  /\ UNCHANGED <<lastSpreadsheetUrl, pendingInit, setCell, frameSid>>
  /\ UNCHANGED <<relayVars, seedVars, viewVars>>
  /\ UNCHANGED afterWrite

\* the re-init succeeded: the session's fields are overwritten in place
GetCellReinitOk ==
  /\ Returned
  /\ getCell.pc = "reinit"
  /\ Len(platform) < MaxSid
  /\ LET init == InitResult(platform)
         s == GetCellReinit(Sess, init) IN
     /\ nexsSession' = Some(s)
     /\ getCell' = [getCell EXCEPT !.pc = "done", !.path = "reinit-ok",
                      !.result = Some(GetCellLookup(s, getCell.sheetName, getCell.cellAddr))]
  /\ platform' = NewPlatformSession(platform)
  /\ UNCHANGED <<lastSpreadsheetUrl, pendingInit, setCell, frameSid>>
  /\ UNCHANGED <<relayVars, seedVars, viewVars>>
  /\ UNCHANGED afterWrite

\* the re-init failed too: proceed with the stale cache
GetCellReinitFail ==
  /\ Returned
  /\ getCell.pc = "reinit"
  /\ getCell' = [getCell EXCEPT !.pc = "done", !.path = "reinit-failed",
                   !.result = Some(GetCellLookup(Sess, getCell.sheetName, getCell.cellAddr))]
  /\ UNCHANGED <<lastSpreadsheetUrl, nexsSession, pendingInit, setCell, platform, frameSid>>
  /\ UNCHANGED <<relayVars, seedVars, viewVars>>
  /\ UNCHANGED afterWrite

GetCellReturn ==
  /\ getCell.pc = "done"
  /\ getCell' = GetIdle
  /\ UNCHANGED <<lastSpreadsheetUrl, nexsSession, pendingInit, setCell, platform, frameSid>>
  /\ UNCHANGED <<relayVars, seedVars, viewVars>>
  /\ afterWrite' = None

\* ------------------------------------------------------------------ set_cell
WriteInput(h) == << [sheet |-> h.sheetName, addr |-> h.cellAddr, value |-> h.value] >>

\* entry up to the first await of doInteract(nexsSession)
SetCellCall(cellRef, value, sheet) ==
  /\ Returned
  /\ setCell.pc = "idle"
  /\ IF ~HasSession
     THEN /\ setCell' = [SetIdle EXCEPT !.pc = "done",
                           !.result = Some(SetResult("NoActiveSession", 0, << >>))]
     ELSE LET parsed == parseCellRef(cellRef)
              sheetName == ResolveSheet(sheet, parsed.sheet, Sess.views) IN
          IF sheetName = None \/ sheetName[1] = << >>
          THEN /\ setCell' = [SetIdle EXCEPT !.pc = "done",
                                !.result = Some(SetResult("AmbiguousSheet", 0, << >>))]
          ELSE LET h == [SetIdle EXCEPT !.sheetName = sheetName[1],
                                        !.cellAddr = parsed.cell, !.value = value] IN
               /\ setCell' = [h EXCEPT !.pc = "interact1", !.nInteract = 1,
                                !.req = Some(InteractRequest(Sess, WriteInput(h))),
                                !.forSid = Sess.sessionId]
  /\ UNCHANGED <<lastSpreadsheetUrl, nexsSession, pendingInit, getCell, platform, frameSid>>
  /\ UNCHANGED <<relayVars, seedVars, viewVars>>
  /\ afterWrite' = None

\* the platform settles set_cell's write request (first or retried)
SetCellWriteSettles ==
  /\ Returned
  /\ setCell.pc \in {"interact1", "interact2"}
  /\ setCell.req # None
  /\ \E o \in PlatformOutcomes(platform, setCell.req[1]) :
       /\ setCell' = [setCell EXCEPT !.req = None, !.resp = Some(o.resp)]
       /\ platform' = o.plat
       /\ UNCHANGED <<relayVars, seedVars, viewVars>>
       /\ afterWrite' = IF o.resp.ok /\ getCell.pc = "idle"
                        THEN Some(Changed(o.resp.values)) ELSE None
  /\ UNCHANGED <<lastSpreadsheetUrl, nexsSession, pendingInit, getCell, frameSid>>

\* applyDelta(nexsSession, result) and the success result
SetCellSucceeds ==
  /\ Returned
  /\ setCell.pc \in {"interact1", "interact2"}
  /\ setCell.resp # None
  /\ setCell.resp[1].ok
  /\ nexsSession' = Some(applyDelta(Sess, setCell.resp[1]))
  /\ setCell' = [setCell EXCEPT !.pc = "done", !.req = None, !.resp = None, !.forSid = 0,
                   !.result = Some(SetResult("ok", setCell.resp[1].revision,
                                             Changed(setCell.resp[1].values)))]
  /\ UNCHANGED <<lastSpreadsheetUrl, pendingInit, getCell, platform, frameSid>>
  /\ UNCHANGED <<relayVars, seedVars, viewVars>>
  /\ UNCHANGED afterWrite

\* outer catch: the first interact failed; await nexsInit(nexsSession.appUuid)
SetCellFirstFails ==
  /\ Returned
  /\ setCell.pc = "interact1"
  /\ setCell.resp # None
  /\ ~setCell.resp[1].ok
  /\ setCell' = [setCell EXCEPT !.pc = "reinit", !.req = None, !.resp = None, !.forSid = 0,
                                !.nInit = @ + 1]
  /\ UNCHANGED <<lastSpreadsheetUrl, nexsSession, pendingInit, getCell, platform, frameSid>>
  /\ UNCHANGED <<relayVars, seedVars, viewVars>>
  /\ afterWrite' = None

\* variant of the recovery that keeps the fromBrowser flag of the old session
SetCellReinitOk_KeepLive ==
  /\ Returned
  /\ setCell.pc = "reinit"
  /\ Len(platform) < MaxSid
  /\ LET s == [SessionFromInit(Sess.appUuid, InitResult(platform))
                EXCEPT !.fromBrowser = Sess.fromBrowser] IN
     /\ nexsSession' = Some(s)
     /\ setCell' = [setCell EXCEPT !.pc = "interact2", !.nInteract = @ + 1,
                      !.req = Some(InteractRequest(s, WriteInput(setCell))),
                      !.forSid = s.sessionId]
  /\ platform' = NewPlatformSession(platform)
  /\ UNCHANGED <<lastSpreadsheetUrl, pendingInit, getCell, frameSid>>
  /\ UNCHANGED <<relayVars, seedVars, viewVars>>
  /\ afterWrite' = None

\* the re-init succeeded: a fresh session object replaces the store's, and the
\* write is retried on it
SetCellReinitOk ==
  /\ Returned
  /\ setCell.pc = "reinit"
  /\ Len(platform) < MaxSid
  /\ LET s == SessionFromInit(Sess.appUuid, InitResult(platform)) IN
     /\ nexsSession' = Some(s)
     /\ setCell' = [setCell EXCEPT !.pc = "interact2", !.nInteract = @ + 1,
                      !.req = Some(InteractRequest(s, WriteInput(setCell))),
                      !.forSid = s.sessionId]
  /\ platform' = NewPlatformSession(platform)
  /\ UNCHANGED <<lastSpreadsheetUrl, pendingInit, getCell, frameSid>>
  /\ UNCHANGED <<relayVars, seedVars, viewVars>>
  /\ afterWrite' = None

\* inner catch, reached from the failed re-init
SetCellReinitFails ==
  /\ Returned
  /\ setCell.pc = "reinit"
  /\ setCell' = [setCell EXCEPT !.pc = "done",
                   !.result = Some(SetResult("WriteFailed", 0, << >>))]
  /\ UNCHANGED <<lastSpreadsheetUrl, nexsSession, pendingInit, getCell, platform, frameSid>>
  /\ UNCHANGED <<relayVars, seedVars, viewVars>>
  /\ afterWrite' = None

\* variant of the inner catch that re-initiates again after a failed retry
SetCellRetryFails_Again ==
  /\ Returned
  /\ setCell.pc = "interact2"
  /\ setCell.resp # None
  /\ ~setCell.resp[1].ok
  /\ setCell' = [setCell EXCEPT !.pc = "reinit", !.req = None, !.resp = None, !.forSid = 0,
                                !.nInit = @ + 1]
  /\ UNCHANGED <<lastSpreadsheetUrl, nexsSession, pendingInit, getCell, platform, frameSid>>
  /\ UNCHANGED <<relayVars, seedVars, viewVars>>
  /\ afterWrite' = None

\* variant of the inner catch that reports the failed retry as a success
SetCellRetryFails_ReportsOk ==
  /\ Returned
  /\ setCell.pc = "interact2"
  /\ setCell.resp # None
  /\ ~setCell.resp[1].ok
  /\ setCell' = [setCell EXCEPT !.pc = "done", !.req = None, !.resp = None, !.forSid = 0,
                   !.result = Some(SetResult("ok", Sess.revision, << >>))]
  /\ UNCHANGED <<lastSpreadsheetUrl, nexsSession, pendingInit, getCell, platform, frameSid>>
  /\ UNCHANGED <<relayVars, seedVars, viewVars>>
  /\ afterWrite' = None

\* inner catch, reached from the failed retry
SetCellRetryFails ==
  /\ Returned
  /\ setCell.pc = "interact2"
  /\ setCell.resp # None
  /\ ~setCell.resp[1].ok
  /\ setCell' = [setCell EXCEPT !.pc = "done", !.req = None, !.resp = None, !.forSid = 0,
                   !.result = Some(SetResult("WriteFailed", 0, << >>))]
  /\ UNCHANGED <<lastSpreadsheetUrl, nexsSession, pendingInit, getCell, platform, frameSid>>
  /\ UNCHANGED <<relayVars, seedVars, viewVars>>
  /\ afterWrite' = None

SetCellReturn ==
  /\ setCell.pc = "done"
  /\ setCell' = SetIdle
  /\ UNCHANGED <<lastSpreadsheetUrl, nexsSession, pendingInit, getCell, platform, frameSid>>
  /\ UNCHANGED <<relayVars, seedVars, viewVars>>
  /\ UNCHANGED afterWrite

\* ------------------------------------------------------------ specification
Next ==
  \/ \E url \in Urls : Render(url)
  \/ \E i \in 1..MaxPending : RenderInitOk(i)
  \/ \E i \in 1..MaxPending : RenderInitFail(i)
  \/ FrameMount
  \/ \E v \in Vals : UserEdit(v)
  \/ \E B \in ReportsNow : BrowserReport(B.values, B.views)
  \/ \E cellRef \in GetRefs, sheet \in GetSheetArgs : GetCellCall(cellRef, sheet)
  \/ GetCellPollSettles
  \/ GetCellSyncOk
  \/ GetCellSyncFailReinit
  \/ GetCellSyncFailExpired
  \/ GetCellReinitOk
  \/ GetCellReinitFail
  \/ GetCellReturn
  \/ \E cellRef \in SetRefs, value \in Vals, sheet \in SetSheetArgs :
       SetCellCall(cellRef, value, sheet)
  \/ SetCellWriteSettles
  \/ SetCellSucceeds
  \/ SetCellFirstFails
  \/ SetCellReinitOk
  \/ SetCellReinitFails
  \/ SetCellRetryFails
  \/ SetCellReturn

Spec == Init /\ [][Next]_vars


\* ------------------------------------------------------------ browser relay
\* The replay of agent writes into the iframe.  render_nexs_spreadsheet is the
\* one of Spec; the relay's own steps read the store and change only the
\* relay's state.
WriteVals == 1..MaxWrites

\* set_cell: views.findIndex(v => v.sheetName === sheetName), else the first
\* visible view, else 0 (indices as in the code, from 0)
ViewIndex(views, sheetName) ==
  IF \E i \in 1..Len(views) : views[i].sheetName = sheetName
  THEN (CHOOSE i \in 1..Len(views) :
          /\ views[i].sheetName = sheetName
          /\ \A j \in 1..(i - 1) : views[j].sheetName # sheetName) - 1
  ELSE IF \E i \in 1..Len(views) : ~views[i].isInvisible
  THEN (CHOOSE i \in 1..Len(views) :
          ~views[i].isInvisible /\ \A j \in 1..(i - 1) : views[j].isInvisible) - 1
  ELSE 0

\* set_cell: structuredContent {viewIndex, addr: cellAddr.toUpperCase(), value}
DisplayInput(session, sheetName, cellAddr, value) ==
  [viewIndex |-> ViewIndex(session.views, sheetName),
   addr |-> ToUpperCase(cellAddr), value |-> value]

\* the server's queue of inputs awaiting replay: a write is appended to it,
\* pop_nexs_display_inputs hands out all of it and leaves it empty
Enqueue(queue, input) == Append(queue, input)
PopAll(queue) == [inputs |-> queue, queue |-> << >>]

\* for (const input of structured?.inputs ?? []) contentWindow.postMessage(
\*   {op: "input", viewIndex: input.viewIndex, cell: input.addr, value: input.value})
ForwardInputs(frame, inputs) ==
  [i \in 1..Len(inputs) |->
     [frame |-> frame, op |-> "input", viewIndex |-> inputs[i].viewIndex,
      cell |-> inputs[i].addr, value |-> inputs[i].value]]

\* a set_cell call whose write the platform accepted: its result carries the
\* input to replay, and the input joins the queue
RelaySetCell(cellRef, value, sheet) ==
  LET parsed == parseCellRef(cellRef)
      sheetName == ResolveSheet(sheet, parsed.sheet, Sess.views)
      input == DisplayInput(Sess, sheetName[1], parsed.cell, value) IN
  /\ HasSession
  /\ sheetName # None /\ sheetName[1] # << >>
  /\ Len(accepted) < MaxWrites
  /\ value = Len(accepted) + 1
  /\ pendingDisplayInputs' = Enqueue(pendingDisplayInputs, input)
  /\ accepted' = Append(accepted, input)
  /\ toolResults' = toolResults \cup {input}
  /\ UNCHANGED <<iframe, iframeSrc, drain, posted>>
  /\ UNCHANGED <<serverVars, seedVars, viewVars>>

\* view, app.ontoolresult for a set_cell result: post the input to the iframe
\* if there is one
ViewSetCellResult(input) ==
  /\ input \in toolResults
  /\ toolResults' = toolResults \ {input}
  /\ posted' = IF iframe # 0 THEN posted \o ForwardInputs(iframe, <<input>>) ELSE posted
  /\ UNCHANGED <<pendingDisplayInputs, iframe, iframeSrc, drain, accepted>>
  /\ UNCHANGED <<serverVars, seedVars, viewVars>>

\* view, app.ontoolresult for the result of the last render: mount an iframe
\* for its url unless the iframe already shows it
ViewRenderResult ==
  /\ lastSpreadsheetUrl # None
  /\ ~(iframe # 0 /\ iframeSrc = Some(lastSpreadsheetUrl))
  /\ iframe < MaxMounts
  /\ iframe' = iframe + 1
  /\ iframeSrc' = Some(lastSpreadsheetUrl)
  /\ UNCHANGED <<pendingDisplayInputs, drain, posted, toolResults, accepted>>
  /\ UNCHANGED <<serverVars, seedVars, viewVars>>

\* view, the setInterval callback: with an iframe in root, call
\* pop_nexs_display_inputs
DrainTick ==
  /\ drain.pc = "idle"
  /\ iframe # 0
  /\ drain' = [pc |-> "called", frame |-> iframe, inputs |-> << >>]
  /\ UNCHANGED <<pendingDisplayInputs, iframe, iframeSrc, posted, toolResults, accepted>>
  /\ UNCHANGED <<serverVars, seedVars, viewVars>>

\* server, pop_nexs_display_inputs
ServerPop ==
  /\ drain.pc = "called"
  /\ drain' = [drain EXCEPT !.pc = "answered", !.inputs = PopAll(pendingDisplayInputs).inputs]
  /\ pendingDisplayInputs' = PopAll(pendingDisplayInputs).queue
  /\ UNCHANGED <<iframe, iframeSrc, posted, toolResults, accepted>>
  /\ UNCHANGED <<serverVars, seedVars, viewVars>>

\* the call does not reach the server: .catch(() => {})
DrainCallFails ==
  /\ drain.pc = "called"
  /\ drain' = DrainIdle
  /\ UNCHANGED <<pendingDisplayInputs, iframe, iframeSrc, posted, toolResults, accepted>>
  /\ UNCHANGED <<serverVars, seedVars, viewVars>>

\* view, the .then() of the call: post every input to the contentWindow of the
\* iframe found by the callback; an iframe no longer in the document has no
\* contentWindow, the first postMessage throws and .catch(() => {}) ends it
DrainForward ==
  /\ drain.pc = "answered"
  /\ posted' = IF drain.frame = iframe
               THEN posted \o ForwardInputs(drain.frame, drain.inputs)
               ELSE posted
  /\ drain' = DrainIdle
  /\ UNCHANGED <<pendingDisplayInputs, iframe, iframeSrc, toolResults, accepted>>
  /\ UNCHANGED <<serverVars, seedVars, viewVars>>

RelayNext ==
  \/ \E url \in Urls : Render(url)
  \/ \E i \in 1..MaxPending : RenderInitOk(i)
  \/ \E i \in 1..MaxPending : RenderInitFail(i)
  \/ \E cellRef \in SetRefs, value \in WriteVals, sheet \in SetSheetArgs :
       RelaySetCell(cellRef, value, sheet)
  \/ \E input \in toolResults : ViewSetCellResult(input)
  \/ ViewRenderResult
  \/ DrainTick
  \/ ServerPop
  \/ DrainCallFails
  \/ DrainForward

\* the host hands the render result to the view; the timer fires every second;
\* a call repeated every second reaches the server; promise callbacks run
RelayFairness ==
  /\ WF_vars(iframe = 0 /\ ViewRenderResult)
  /\ WF_vars(DrainTick)
  /\ SF_vars(ServerPop)
  /\ WF_vars(DrainForward)

SpecRelay == Init /\ [][RelayNext]_vars /\ RelayFairness


\* ------------------------------------------------- seeding from the browser
\* The server whose get_cell waits for the iframe's initial report
\* (seededFromBrowser) and the view whose message listener relays the iframe's
\* messages to update_nexs_cells.  Time is counted in poll intervals.
NexsOrigin == <<"https://platform.nexs.com">>
Origins == {NexsOrigin, NexsOrigin \o <<".evil.example">>, <<"https://evil.example">>}

\* String.prototype.startsWith
StartsWith(s, prefix) == Len(prefix) <= Len(s) /\ SubSeq(s, 1, Len(prefix)) = prefix

\* e.data of a message: the string "hello", a JSON text of an initApp or an
\* updateCellMap with per-view cell maps, or a text that is not JSON
Messages ==
  {[kind |-> "hello", op |-> "", cells |-> << >>], [kind |-> "text", op |-> "", cells |-> << >>]}
  \cup {[kind |-> "json", op |-> op, cells |-> c] :
          op \in {"initApp", "updateCellMap"},
          c \in {m \in CellMaps : m[1][1].ci.data = MaxVal}}

\* render_nexs_spreadsheet up to its await of nexsInit
SeedRender(url) ==
  LET appUuid == extractNexsUuid(url) IN
  /\ Returned
  /\ appUuid # None => Len(pendingInit) < MaxPending
  /\ lastSpreadsheetUrl' = url
  /\ pendingInit' = IF appUuid # None THEN Append(pendingInit, appUuid[1]) ELSE pendingInit
  /\ UNCHANGED <<nexsSession, getCell, setCell, platform, frameSid, afterWrite>>
  /\ UNCHANGED <<relayVars, seedVars, viewVars>>

\* nexsInit answered: the session is replaced by one not yet seeded
SeedRenderInitOk(i) ==
  LET init == InitResult(platform) IN
  /\ Returned
  /\ i \in 1..Len(pendingInit)
  /\ Len(platform) < MaxSid
  /\ nexsSession' = Some([appUuid |-> pendingInit[i], sessionId |-> init.sessionId,
                          revision |-> init.revision, views |-> init.views,
                          cellCache |-> buildCellCache(init.values),
                          seededFromBrowser |-> FALSE])
  /\ platform' = NewPlatformSession(platform)
  /\ pendingInit' = RemoveAt(pendingInit, i)
  /\ UNCHANGED <<lastSpreadsheetUrl, getCell, setCell, frameSid, afterWrite>>
  /\ UNCHANGED <<relayVars, seedVars, viewVars>>

\* nexsInit threw: render still succeeds, the store is as it was
SeedRenderInitFail(i) ==
  /\ Returned
  /\ i \in 1..Len(pendingInit)
  /\ pendingInit' = RemoveAt(pendingInit, i)
  /\ UNCHANGED <<lastSpreadsheetUrl, nexsSession, getCell, setCell, platform, frameSid,
                 afterWrite>>
  /\ UNCHANGED <<relayVars, seedVars, viewVars>>

\* view, window "message" listener; a call of update_nexs_cells keeps, as
\* history, the message it was made from
ViewMessage(origin, data) ==
  /\ Len(viewCalls) < MaxCalls
  /\ IF data.kind = "hello"
     THEN /\ echoes' = echoes \cup {origin}
          /\ UNCHANGED <<parses, callers, viewCalls>>
     ELSE /\ parses' = parses \cup {origin}
          /\ UNCHANGED echoes
          /\ IF data.kind = "json" /\ StartsWith(origin, NexsOrigin)
             THEN /\ callers' = callers \cup {origin}
                  /\ viewCalls' = Append(viewCalls, [cells |-> data.cells,
                                                     isInitApp |-> data.op = "initApp",
                                                     from |-> data])
             ELSE UNCHANGED <<callers, viewCalls>>
  /\ UNCHANGED now
  /\ UNCHANGED <<serverVars, relayVars, viewVars>>

\* variant of update_nexs_cells that marks the session seeded on every call
UpdateNexsCellsCall_AlwaysSeeds ==
  /\ Returned
  /\ viewCalls # << >>
  /\ viewCalls' = Tail(viewCalls)
  /\ nexsSession' =
       IF nexsSession = None THEN None
       ELSE Some([UpdateNexsCells(Sess, Head(viewCalls).cells, 1) EXCEPT
                    !.seededFromBrowser = TRUE])
  /\ UNCHANGED <<lastSpreadsheetUrl, pendingInit, getCell, setCell, platform, frameSid,
                 afterWrite>>
  /\ UNCHANGED <<now, echoes, parses, callers>>
  /\ UNCHANGED <<relayVars, viewVars>>

\* server, update_nexs_cells
UpdateNexsCellsCall ==
  /\ Returned
  /\ viewCalls # << >>
  /\ viewCalls' = Tail(viewCalls)
  /\ nexsSession' =
       IF nexsSession = None THEN None
       ELSE Some([UpdateNexsCells(Sess, Head(viewCalls).cells, 1) EXCEPT
                    !.seededFromBrowser = @ \/ Head(viewCalls).isInitApp])
  /\ UNCHANGED <<lastSpreadsheetUrl, pendingInit, getCell, setCell, platform, frameSid,
                 afterWrite>>
  /\ UNCHANGED <<now, echoes, parses, callers>>
  /\ UNCHANGED <<relayVars, viewVars>>

\* get_cell up to its wait: without a session it returns the error, with a
\* seeded session it looks up at once, otherwise it arms the first poll
WaitGetCellCall(cellRef, sheet) ==
  /\ Returned
  /\ getCell.pc = "idle"
  /\ now <= MaxNow
  /\ IF ~HasSession
     THEN getCell' = [pc |-> "done", sheetName |-> None, cellAddr |-> << >>,
                      deadline |-> 0, nextPoll |-> 0, result |-> Some(NoSessionResult)]
     ELSE LET parsed == parseCellRef(cellRef)
              sheetName == ResolveSheet(sheet, parsed.sheet, Sess.views) IN
          IF Sess.seededFromBrowser
          THEN getCell' = [pc |-> "done", sheetName |-> sheetName, cellAddr |-> parsed.cell,
                           deadline |-> 0, nextPoll |-> 0,
                           result |-> Some(GetCellLookup(Sess, sheetName, parsed.cell))]
          ELSE getCell' = [pc |-> "wait", sheetName |-> sheetName, cellAddr |-> parsed.cell,
                           deadline |-> now + WaitPolls, nextPoll |-> now + 1,
                           result |-> None]
  /\ UNCHANGED <<lastSpreadsheetUrl, nexsSession, pendingInit, setCell, platform, frameSid,
                 afterWrite>>
  /\ UNCHANGED <<relayVars, seedVars, viewVars>>

\* variant of the poll that looks at the flag only
WaitPoll_NoDeadline ==
  /\ getCell.pc = "wait"
  /\ now >= getCell.nextPoll
  /\ IF Sess.seededFromBrowser
     THEN getCell' = [getCell EXCEPT !.pc = "done",
                        !.result = Some(GetCellLookup(Sess, getCell.sheetName,
                                                      getCell.cellAddr))]
     ELSE getCell' = [getCell EXCEPT !.nextPoll = now + 1]
  /\ UNCHANGED <<lastSpreadsheetUrl, nexsSession, pendingInit, setCell, platform, frameSid,
                 afterWrite>>
  /\ UNCHANGED <<relayVars, seedVars, viewVars>>

\* get_cell, poll(): resolve when the session is seeded or the deadline has
\* passed, and then look the cell up; else arm the next poll
WaitPoll ==
  /\ getCell.pc = "wait"
  /\ now >= getCell.nextPoll
  /\ IF Sess.seededFromBrowser \/ now >= getCell.deadline
     THEN getCell' = [getCell EXCEPT !.pc = "done",
                        !.result = Some(GetCellLookup(Sess, getCell.sheetName,
                                                      getCell.cellAddr))]
     ELSE getCell' = [getCell EXCEPT !.nextPoll = now + 1]
  /\ UNCHANGED <<lastSpreadsheetUrl, nexsSession, pendingInit, setCell, platform, frameSid,
                 afterWrite>>
  /\ UNCHANGED <<relayVars, seedVars, viewVars>>

\* time passes
ClockTick ==
  /\ now < MaxNow \/ (getCell.pc = "wait" /\ now < getCell.deadline)
  /\ now' = now + 1
  /\ UNCHANGED <<echoes, parses, callers, viewCalls>>
  /\ UNCHANGED <<serverVars, relayVars, viewVars>>

WaitGetCellReturn ==
  /\ getCell.pc = "done"
  /\ getCell' = GetIdle
  /\ UNCHANGED <<lastSpreadsheetUrl, nexsSession, pendingInit, setCell, platform, frameSid,
                 afterWrite>>
  /\ UNCHANGED <<relayVars, seedVars, viewVars>>

SeedNext ==
  \/ \E url \in Urls : SeedRender(url)
  \/ \E i \in 1..MaxPending : SeedRenderInitOk(i)
  \/ \E i \in 1..MaxPending : SeedRenderInitFail(i)
  \/ \E origin \in Origins, data \in Messages : ViewMessage(origin, data)
  \/ UpdateNexsCellsCall
  \/ \E cellRef \in GetRefs, sheet \in GetSheetArgs : WaitGetCellCall(cellRef, sheet)
  \/ WaitPoll
  \/ ClockTick
  \/ WaitGetCellReturn

\* time passes and an armed setTimeout fires
SeedFairness ==
  /\ WF_vars(ClockTick)
  /\ WF_vars(WaitPoll)

SpecSeed == Init /\ [][SeedNext]_vars /\ SeedFairness


\* ------------------------------------------------------ two published apps
\* The server and the iframe with two published apps.  App A is the app above;
\* app B has one sheet S1 with the editable cell B1.  A platform session
\* carries the app it was initiated for.
AppsUrls == {UrlA, UrlB}

CellB1(v) == [sn |-> S1, ci |-> [addr |-> <<"B", "1">>, data |-> v]]

\* values[] of an init response of the app for a session whose input cell holds v
AppSnapshot(app, v) == IF app = AppB THEN << CellB1(v) >> ELSE Snapshot(v)

AppsInitResult(plat, app) ==
  [sessionId |-> Len(plat) + 1, revision |-> 1, views |-> AppViews,
   values |-> AppSnapshot(app, 0)]

AppsNewSession(plat, app) == Append(plat, [rev |-> 1, val |-> 0, app |-> app])

\* render's background nexsInit(appUuid) settles
AppsRenderInitOk(i) ==
  /\ i \in 1..Len(pendingInit)
  /\ Len(platform) < MaxSid
  /\ nexsSession' = RenderInitThen(nexsSession, pendingInit[i],
                                   AppsInitResult(platform, pendingInit[i]))
  /\ platform' = AppsNewSession(platform, pendingInit[i])
  /\ pendingInit' = RemoveAt(pendingInit, i)
  /\ UNCHANGED <<lastSpreadsheetUrl, getCell, setCell, frameSid, afterWrite>>
  /\ UNCHANGED <<relayVars, seedVars, viewVars>>

\* the view mounts the iframe of the last rendered URL; the iframe initiates
\* its own platform session of that URL's app
AppsFrameMount ==
  /\ lastSpreadsheetUrl # None
  /\ extractNexsUuid(lastSpreadsheetUrl) # None
  /\ Len(platform) < MaxSid
  /\ platform' = AppsNewSession(platform, extractNexsUuid(lastSpreadsheetUrl)[1])
  /\ frameSid' = Len(platform) + 1
  /\ UNCHANGED <<lastSpreadsheetUrl, nexsSession, pendingInit, getCell, setCell, afterWrite>>
  /\ UNCHANGED <<relayVars, seedVars, viewVars>>

\* the user edits the input cell in the iframe
AppsUserEdit(v) ==
  /\ frameSid # 0
  /\ platform[frameSid].rev < MaxRev
  /\ platform' = [platform EXCEPT ![frameSid].rev = @ + 1, ![frameSid].val = v]
  /\ UNCHANGED <<lastSpreadsheetUrl, nexsSession, pendingInit, getCell, setCell, frameSid,
                 afterWrite>>
  /\ UNCHANGED <<relayVars, seedVars, viewVars>>

\* the report of the mounted iframe: its session, its revision, its app's cells
AppsReportArgs ==
  [session_id |-> frameSid, revision |-> platform[frameSid].rev,
   values |-> AppSnapshot(platform[frameSid].app, platform[frameSid].val),
   views |-> AppViews]

\* onNexsMessage relays the iframe's session to set_nexs_session
AppsBrowserReport ==
  /\ frameSid # 0
  /\ nexsSession' = SetNexsSession(nexsSession, lastSpreadsheetUrl, AppsReportArgs)
  /\ UNCHANGED <<lastSpreadsheetUrl, pendingInit, getCell, setCell, platform, frameSid,
                 afterWrite>>
  /\ UNCHANGED <<relayVars, seedVars, viewVars>>

AppsNext ==
  \/ \E url \in AppsUrls : Render(url)
  \/ \E i \in 1..MaxPending : AppsRenderInitOk(i)
  \/ \E i \in 1..MaxPending : RenderInitFail(i)
  \/ AppsFrameMount
  \/ \E v \in Vals : AppsUserEdit(v)
  \/ AppsBrowserReport

SpecApps == Init /\ [][AppsNext]_vars

\* ------------------------------------------------------ mounting the iframe
\* The App View of part_002 as far as the root element goes: ontoolinput,
\* ontoolresult, mountSpreadsheet, the iframe's load listener and the
\* refresh-recovery timer, with the server's render_nexs_spreadsheet, set_cell
\* result (part_000) and restore_nexs_spreadsheet.
\* A URL is its sequence of segments, the origin first.  UrlADot is UrlA
\* spelled with a "." segment, UrlEvil is the same path on another origin,
\* BadUrl is a text that is no URL.
UrlADot == <<<<"platform.nexs.com">>, <<"app">>, <<".">>, AppA>>
UrlEvil == <<<<"evil.example">>, <<"app">>, AppA>>
BadUrl == << <<"not a url">> >>
RenderUrls == {UrlA, UrlADot, UrlEvil, UrlNoUuid}
ViewUrls == RenderUrls \cup {BadUrl}

\* url.startsWith("https://platform.nexs.com/")
StartsWithPlatform(url) == url # << >> /\ url[1] = <<"platform.nexs.com">>

NotDot(seg) == seg # <<".">>

\* new URL(url).toString(): throws (None) on a text that is no URL, and
\* otherwise gives the normalised spelling, without "." segments
ParseUrl(url) == IF url = BadUrl THEN None ELSE Some(SelectSeq(url, NotDot))

\* showError: the root's content is replaced by the error box
ShowError(r) == [kind |-> "error", n |-> r.n, src |-> None, url |-> None, initSent |-> FALSE]

\* variant of mountSpreadsheet without the check of the URL's prefix
MountSpreadsheet_AnyOrigin(r, m, url) ==
  IF ParseUrl(url) = None
  THEN [root |-> ShowError(r), mounted |-> m]
  ELSE [root |-> [kind |-> "iframe", n |-> r.n + 1, src |-> ParseUrl(url),
                  url |-> Some(url), initSent |-> FALSE],
        mounted |-> TRUE]

\* mountSpreadsheet(url) on the root r and the flag m; n counts the iframes
\* mounted so far and so names the one in the root
MountSpreadsheet(r, m, url) ==
  IF ~StartsWithPlatform(url) \/ ParseUrl(url) = None
  THEN [root |-> ShowError(r), mounted |-> m]
  ELSE [root |-> [kind |-> "iframe", n |-> r.n + 1, src |-> ParseUrl(url),
                  url |-> Some(url), initSent |-> FALSE],
        mounted |-> TRUE]

\* a tool result as the host hands it to the view: sent is the app_url of the
\* structuredContent the server returned, app_url the one the view receives,
\* replay the input of a successful set_cell (viewIndex, addr, value)
RenderResult(url) ==
  [tool |-> "render", sent |-> Some(url), app_url |-> Some(url), replay |-> None]
BareResult(tool) == [tool |-> tool, sent |-> None, app_url |-> None, replay |-> None]
SetCellResult(input) ==
  [tool |-> "set_cell", sent |-> None, app_url |-> None, replay |-> Some(input)]

\* a host that hands the view the result without its structuredContent
HostStrips(result) == [result EXCEPT !.app_url = None]

\* app.ontoolinput: the raw arguments of a tool call
OnToolInput(url) ==
  /\ capturedUrl' = Some(url)
  /\ UNCHANGED <<root, mounted, inbox, timer, inits>>
  /\ UNCHANGED <<serverVars, relayVars, seedVars>>

\* server, render_nexs_spreadsheet: the URL is recorded, the init starts, and
\* the result goes to the host, which forwards structuredContent or not
ViewRender(url, forwarded) ==
  LET appUuid == extractNexsUuid(url) IN
  /\ Cardinality(inbox) < MaxResults
  /\ appUuid # None => Len(pendingInit) < MaxPending
  /\ lastSpreadsheetUrl' = url
  /\ pendingInit' = IF appUuid # None THEN Append(pendingInit, appUuid[1]) ELSE pendingInit
  /\ inbox' = inbox \cup {IF forwarded THEN RenderResult(url)
                           ELSE HostStrips(RenderResult(url))}
  /\ UNCHANGED <<nexsSession, getCell, setCell, platform, frameSid, afterWrite>>
  /\ UNCHANGED <<root, mounted, capturedUrl, timer, inits>>
  /\ UNCHANGED <<relayVars, seedVars>>

\* server, set_cell as far as its result: an error result has no
\* structuredContent, a success carries the input to replay
ViewSetCell(cellRef, value, sheet, accepts) ==
  LET parsed == parseCellRef(cellRef)
      sheetName == ResolveSheet(sheet, parsed.sheet, Sess.views) IN
  /\ Cardinality(inbox) < MaxResults
  /\ inbox' = inbox \cup
       {IF ~HasSession THEN BareResult("set_cell")
        ELSE IF sheetName = None \/ sheetName[1] = << >> THEN BareResult("set_cell")
        ELSE IF ~accepts THEN BareResult("set_cell")
        ELSE SetCellResult(DisplayInput(Sess, sheetName[1], parsed.cell, value))}
  /\ UNCHANGED <<root, mounted, capturedUrl, timer, inits>>
  /\ UNCHANGED <<serverVars, relayVars, seedVars>>

\* variant of ontoolresult that mounts whenever it has a URL
OnToolResult_AlwaysMounts(result) ==
  /\ result \in inbox
  /\ root.n < MaxMounts
  /\ inbox' = inbox \ {result}
  /\ IF result.replay # None /\ result.replay[1].addr # << >>
     THEN UNCHANGED <<root, mounted, capturedUrl>>
     ELSE LET url == IF result.app_url # None THEN result.app_url ELSE capturedUrl IN
          /\ capturedUrl' = None
          /\ IF url = None
             THEN /\ root' = ShowError(root)
                  /\ UNCHANGED mounted
             ELSE /\ root' = MountSpreadsheet(root, mounted, url[1]).root
                  /\ mounted' = MountSpreadsheet(root, mounted, url[1]).mounted
  /\ UNCHANGED <<timer, inits>>
  /\ UNCHANGED <<serverVars, relayVars, seedVars>>

\* app.ontoolresult: a result with viewIndex and addr is replayed into the
\* iframe (a message to the frame, no state of the view); any other result is
\* taken for a render result
OnToolResult(result) ==
  /\ result \in inbox
  /\ root.n < MaxMounts
  /\ inbox' = inbox \ {result}
  /\ IF result.replay # None /\ result.replay[1].addr # << >>
     THEN UNCHANGED <<root, mounted, capturedUrl>>
     ELSE LET url == IF result.app_url # None THEN result.app_url ELSE capturedUrl IN
          /\ capturedUrl' = None
          /\ IF url = None
             THEN /\ root' = ShowError(root)
                  /\ UNCHANGED mounted
             ELSE IF /\ root.kind = "iframe"
                     /\ ParseUrl(url[1]) # None
                     /\ root.src = ParseUrl(url[1])
             THEN UNCHANGED <<root, mounted>>
             ELSE /\ root' = MountSpreadsheet(root, mounted, url[1]).root
                  /\ mounted' = MountSpreadsheet(root, mounted, url[1]).mounted
  /\ UNCHANGED <<timer, inits>>
  /\ UNCHANGED <<serverVars, relayVars, seedVars>>

\* the iframe's "load" listener posts {op: "init", id} to it
IframeLoad ==
  /\ root.kind = "iframe"
  /\ ~root.initSent
  /\ root' = [root EXCEPT !.initSent = TRUE]
  /\ inits' = inits + 1
  /\ UNCHANGED <<mounted, capturedUrl, inbox, timer>>
  /\ UNCHANGED <<serverVars, relayVars, seedVars>>

\* the setTimeout callback after REFRESH_DELAY_MS: if (mounted) return; else
\* call restore_nexs_spreadsheet
TimerFires ==
  /\ timer.pc = "armed"
  /\ timer' = [timer EXCEPT !.pc = IF mounted THEN "done" ELSE "called"]
  /\ UNCHANGED <<root, mounted, capturedUrl, inbox, inits>>
  /\ UNCHANGED <<serverVars, relayVars, seedVars>>

\* server, restore_nexs_spreadsheet: {app_url: lastSpreadsheetUrl} (<<>> = null)
RestoreNexsSpreadsheet ==
  /\ timer.pc = "called"
  /\ timer' = [pc |-> "answered", url |-> lastSpreadsheetUrl]
  /\ UNCHANGED <<root, mounted, capturedUrl, inbox, inits>>
  /\ UNCHANGED <<serverVars, relayVars, seedVars>>

\* callServerTool rejects: the catch block does nothing
RestoreFails ==
  /\ timer.pc = "called"
  /\ timer' = [pc |-> "done", url |-> None]
  /\ UNCHANGED <<root, mounted, capturedUrl, inbox, inits>>
  /\ UNCHANGED <<serverVars, relayVars, seedVars>>

\* variant of the continuation that mounts whatever restore returned
TimerRestoreResult_Unchecked ==
  /\ timer.pc = "answered"
  /\ root.n < MaxMounts
  /\ timer' = [pc |-> "done", url |-> None]
  /\ IF timer.url # None
     THEN /\ root' = MountSpreadsheet(root, mounted, timer.url).root
          /\ mounted' = MountSpreadsheet(root, mounted, timer.url).mounted
     ELSE UNCHANGED <<root, mounted>>
  /\ UNCHANGED <<capturedUrl, inbox, inits>>
  /\ UNCHANGED <<serverVars, relayVars, seedVars>>

\* the callback resumes with restore's result:
\* if (data?.app_url && !mounted) mountSpreadsheet(data.app_url)
TimerRestoreResult ==
  /\ timer.pc = "answered"
  /\ root.n < MaxMounts
  /\ timer' = [pc |-> "done", url |-> None]
  /\ IF timer.url # None /\ ~mounted
     THEN /\ root' = MountSpreadsheet(root, mounted, timer.url).root
          /\ mounted' = MountSpreadsheet(root, mounted, timer.url).mounted
     ELSE UNCHANGED <<root, mounted>>
  /\ UNCHANGED <<capturedUrl, inbox, inits>>
  /\ UNCHANGED <<serverVars, relayVars, seedVars>>

\* the page is reloaded while no result is on its way: the module starts
\* again with its initial values, the host delivers no result of the past
\* again, and the server's store stays
PageRefresh ==
  /\ inbox = {}
  /\ root' = [RootLoading EXCEPT !.n = root.n]
  /\ mounted' = FALSE
  /\ capturedUrl' = None
  /\ UNCHANGED inbox
  /\ timer' = TimerArmed
  /\ UNCHANGED inits
  /\ UNCHANGED <<serverVars, relayVars, seedVars>>

ViewNext ==
  \/ \E url \in ViewUrls : OnToolInput(url)
  \/ \E url \in RenderUrls, forwarded \in BOOLEAN : ViewRender(url, forwarded)
  \/ \E i \in 1..MaxPending : RenderInitOk(i)
  \/ \E i \in 1..MaxPending : RenderInitFail(i)
  \/ \E cellRef \in SetRefs, value \in Vals, sheet \in SetSheetArgs, accepts \in BOOLEAN :
       ViewSetCell(cellRef, value, sheet, accepts)
  \/ \E result \in inbox : OnToolResult(result)
  \/ IframeLoad
  \/ TimerFires
  \/ RestoreNexsSpreadsheet
  \/ RestoreFails
  \/ TimerRestoreResult
  \/ PageRefresh

SpecView == Init /\ [][ViewNext]_vars

\* ------------------------------------------------------------------ claims
\* the cell cache as a mapping (its entries without their insertion order)
CacheMap(session) == {session.cellCache[i] : i \in 1..Len(session.cellCache)}
CacheKeys(session) == {e.key : e \in CacheMap(session)}

\* C1: reconciliation is order-insensitive.  Whenever a render's eager init is
\* in flight and the iframe can report, completing the init and then handling
\* the report leaves the same cell cache (as a mapping) and fromBrowser = TRUE
\* as handling the report first and completing the init afterwards.
C1_OrderInsensitive ==
  \A i \in 1..Len(pendingInit) : \A B \in ReportsNow :
    (Len(platform) < MaxSid /\ extractNexsUuid(lastSpreadsheetUrl) = Some(pendingInit[i])) =>
      LET A == InitResult(platform)
          ab == SetNexsSession(RenderInitThen(nexsSession, pendingInit[i], A),
                               lastSpreadsheetUrl, B)[1]
          ba == RenderInitThen(SetNexsSession(nexsSession, lastSpreadsheetUrl, B),
                               pendingInit[i], A)[1]
      IN /\ CacheMap(ab) = CacheMap(ba)
         /\ ab.fromBrowser /\ ba.fromBrowser

\* the step is a set_nexs_session call
IsBrowserReport == \E B \in ReportsNow : BrowserReport(B.values, B.views)

\* C2: once the session is fromBrowser, it stays fromBrowser and only a browser
\* report changes its sessionId.
C2_LiveBoundNeverReplaced ==
  [][(HasSession /\ Sess.fromBrowser) =>
       /\ nexsSession'[1].fromBrowser
       /\ (nexsSession'[1].sessionId # Sess.sessionId => IsBrowserReport)]_vars

\* C3: while the session keeps its sessionId, its revision never decreases.
C3_RevisionMonotonic ==
  [][(HasSession /\ nexsSession'[1].sessionId = Sess.sessionId) =>
       nexsSession'[1].revision >= Sess.revision]_vars

\* a set_cell result is on display
SetCellDone(kind) == setCell.pc = "done" /\ setCell.result[1].kind = kind
\* a get_cell result is on display
GetCellDone(kind) == getCell.pc = "done" /\ getCell.result[1].kind = kind

\* C4: one set_cell invocation issues at most two interact requests and at
\* most one initiate request; the second interact is only issued after that
\* initiate, and once the initiate or the retried write has failed the handler
\* holds its error result with no request outstanding.
C4_AtMostOneRetry ==
  /\ setCell.nInteract <= 2
  /\ setCell.nInit <= 1
  /\ setCell.pc = "interact1" => setCell.nInteract = 1 /\ setCell.nInit = 0
  /\ setCell.pc = "reinit" => setCell.nInteract = 1 /\ setCell.nInit = 1
  /\ setCell.pc = "interact2" => setCell.nInteract = 2 /\ setCell.nInit = 1
  /\ SetCellDone("WriteFailed") =>
       /\ setCell.nInit = 1
       /\ setCell.req = None /\ setCell.resp = None

C4_Witness ==
  SetCellDone("WriteFailed") /\ setCell.nInteract = 2 /\ setCell.nInit = 1

\* get_cell's synchronization poll has failed and the handler resumes
GetCellPollFailed ==
  /\ getCell.pc = "sync"
  /\ getCell.resp # None
  /\ ~getCell.resp[1].ok
  /\ getCell' # getCell

\* C5: when get_cell's poll has failed and the session is fromBrowser, get_cell
\* returns the session-expired error, has issued no initiate request, opens no
\* platform session and leaves the session unchanged.
C5_LiveBoundPollFailure ==
  [][(GetCellPollFailed /\ Sess.fromBrowser) =>
       /\ getCell'.pc = "done"
       /\ getCell'.result = Some(ExpiredResult)
       /\ getCell'.nInit = 0
       /\ platform' = platform
       /\ nexsSession' = nexsSession]_vars

C5_Witness ==
  GetCellDone("SessionExpired") /\ getCell.nInit = 0 /\ Sess.fromBrowser

\* the cache entries a list of [sheetName, cell] values stands for
EntriesOf(values) ==
  {[key |-> CacheKey(values[i].sn, values[i].ci.addr),
    sheetName |-> values[i].sn, ci |-> values[i].ci] : i \in 1..Len(values)}

\* C6: when get_cell's poll has failed and the session is not fromBrowser,
\* get_cell issues exactly one initiate request.  If it succeeds the session's
\* sessionId, revision, views and cell cache are those of the fresh snapshot and
\* the lookup runs on them; if it fails the session is unchanged and the lookup
\* runs on the existing cache.
C6_NonLivePollFailure ==
  [][/\ (GetCellPollFailed /\ ~Sess.fromBrowser) =>
          /\ getCell'.pc = "reinit"
          /\ getCell'.nInit = 1
          /\ platform' = platform
          /\ nexsSession' = nexsSession
     /\ (getCell.pc = "reinit" /\ getCell' # getCell) =>
          /\ getCell'.pc = "done"
          /\ getCell'.nInit = 1
          /\ IF platform' # platform
             THEN LET init == InitResult(platform)
                      s == nexsSession'[1] IN
                  /\ platform' = NewPlatformSession(platform)
                  /\ s.sessionId = init.sessionId
                  /\ s.revision = init.revision
                  /\ s.views = init.views
                  /\ CacheMap(s) = EntriesOf(init.values)
                  /\ s.appUuid = Sess.appUuid /\ s.fromBrowser = Sess.fromBrowser
                  /\ getCell'.result =
                       Some(GetCellLookup(s, getCell.sheetName, getCell.cellAddr))
             ELSE /\ nexsSession' = nexsSession
                  /\ getCell'.result =
                       Some(GetCellLookup(Sess, getCell.sheetName, getCell.cellAddr))]_vars

C6_Witness ==
  /\ GetCellDone("ok") /\ getCell.path = "reinit-ok" /\ getCell.nInit = 1
  /\ Sess.sessionId = Len(platform) /\ Sess.revision = 1
  /\ \E sid \in 1..Len(platform) : platform[sid].val # 0

\* the get_cell on display asked for the cell of entry c of a changed list
SameCell(c) ==
  /\ getCell.sheetName = Some(c.sheet)
  /\ ToUpperCase(getCell.cellAddr) = ToUpperCase(c.addr)

\* the get_cell on display was called right after a successful set_cell, and
\* nothing else has run since the platform applied that write
GetCellAfterWrite == getCell.pc = "done" /\ afterWrite # None

\* C7: a get_cell that immediately follows a successful set_cell and returns a
\* value for a cell of the changed list returns the value the changed list
\* reported.
C7_ReadYourWrite ==
  (GetCellAfterWrite /\ getCell.result[1].kind = "ok") =>
    \A i \in 1..Len(afterWrite[1]) :
      SameCell(afterWrite[1][i]) => getCell.result[1].value = afterWrite[1][i].value

\* C8: set_cell shows a success result only in a step that consumes a
\* successful response to a request carrying the write, and in that step the
\* session takes the response's revision and values; every other step that ends
\* or continues the handler after a failed response leaves the session's cache
\* and revision as they were and shows no success.  Every request the handler
\* has outstanding carries the write.
C8_SuccessOnlyOnWrite ==
  [][/\ (setCell.pc # "done" /\ setCell'.pc = "done") =>
          IF setCell'.result[1].kind = "ok"
          THEN /\ setCell.resp # None /\ setCell.resp[1].ok
               /\ nexsSession'[1].revision = setCell.resp[1].revision
               /\ EntriesOf(setCell.resp[1].values) \subseteq CacheMap(nexsSession'[1])
               /\ setCell'.result[1].revision = setCell.resp[1].revision
               /\ setCell'.result[1].changed = Changed(setCell.resp[1].values)
          ELSE nexsSession' = nexsSession
     /\ (setCell.resp # None /\ ~setCell.resp[1].ok /\ setCell' # setCell) =>
          /\ nexsSession' = nexsSession
          /\ setCell'.pc \in {"reinit", "done"}
          /\ setCell'.pc = "done" => setCell'.result[1].kind = "WriteFailed"
     /\ setCell'.req # None => setCell'.req[1].inputs = WriteInput(setCell')]_vars

C8_Witness ==
  /\ SetCellDone("ok") /\ setCell.nInteract = 2
  /\ Sess.revision = setCell.result[1].revision
  /\ \A i \in 1..Len(setCell.result[1].changed) :
       setCell.result[1].changed[i].value = setCell.value

\* the entries of a report that set_nexs_session merges
Reported(B) ==
  EntriesOf(SelectSeq(B.values, LAMBDA e : e.sn # << >> /\ e.ci.addr # << >>))

\* the step issues an interact request from handler h
Issues(h, hNext) == hNext.req # None /\ hNext.req # h.req

CreatedFrom(appUuid, B, s) ==
  /\ s.appUuid = appUuid
  /\ s.sessionId = B.session_id
  /\ s.revision = B.revision
  /\ s.views = B.views
  /\ CacheMap(s) = Reported(B)
  /\ s.fromBrowser

C11_BackfillOnly ==
  [][\A i \in 1..Len(pendingInit) :
       (HasSession /\ Sess.fromBrowser /\ RenderInitOk(i)) =>
         LET s == nexsSession'[1] IN
         /\ s.appUuid = Sess.appUuid
         /\ s.sessionId = Sess.sessionId
         /\ s.revision = Sess.revision
         /\ s.views = Sess.views
         /\ s.fromBrowser
         /\ CacheMap(Sess) \subseteq CacheMap(s)
         /\ CacheMap(s) \ CacheMap(Sess) =
              {e \in EntriesOf(InitResult(platform).values) : e.key \notin CacheKeys(Sess)}]_vars

C11_Witness ==
  /\ HasSession /\ Sess.fromBrowser /\ Sess.views = << >>
  /\ frameSid # 0 /\ Sess.sessionId = frameSid /\ platform[frameSid].val = 1
  /\ \E e \in CacheMap(Sess) : e.key = CacheKey(S1, <<"A", "1">>) /\ e.ci.data = 1
  /\ \E e \in CacheMap(Sess) : e.key = CacheKey(S2, <<"A", "1">>) /\ e.ci.data = 0

\* C12: in every reachable state, handling a report the iframe can send and
\* then handling the same report again leaves the store (appUuid, sessionId,
\* revision, views, cell cache, fromBrowser) as it was after the first handling.
C12_ReportIdempotent ==
  \A B \in ReportsNow :
    LET once == SetNexsSession(nexsSession, lastSpreadsheetUrl, B)
        twice == SetNexsSession(once, lastSpreadsheetUrl, B) IN
    /\ twice = once
    /\ once # None => once[1].fromBrowser

\* the store is fromBrowser and is what handling report B leaves
C12_Witness ==
  /\ HasSession /\ Sess.fromBrowser
  /\ \E B \in ReportsNow :
       /\ Reported(B) # {}
       /\ SetNexsSession(nexsSession, lastSpreadsheetUrl, B) = nexsSession

\* C13: when a render's nexsInit completes while a session exists, the
\* session keeps its sessionId and revision and every cache entry it held.
C13_RenderKeepsSession ==
  [][\A i \in 1..Len(pendingInit) :
       (HasSession /\ RenderInitOk(i)) =>
         /\ nexsSession'[1].sessionId = Sess.sessionId
         /\ nexsSession'[1].revision = Sess.revision
         /\ CacheMap(Sess) \subseteq CacheMap(nexsSession'[1])]_vars

\* C14: get_cell and set_cell never have interact requests for the same
\* platform session outstanding at the same time.
C14_OneInteractInFlight ==
  ~ /\ getCell.req # None
    /\ setCell.req # None
    /\ getCell.req[1].sessionId = setCell.req[1].sessionId

\* get_cell consumes a successful poll answer on the fromBrowser session of the
\* mounted iframe, whose platform session is still at the answer's revision
GetCellSyncsLive ==
  /\ getCell.pc = "sync" /\ getCell'.pc = "done"
  /\ getCell.resp # None /\ getCell.resp[1].ok
  /\ Sess.fromBrowser
  /\ frameSid # 0 /\ Sess.sessionId = frameSid
  /\ platform[frameSid].rev = getCell.resp[1].revision

\* C15: when get_cell's poll succeeds on the fromBrowser session, a value it
\* returns is the value the iframe's platform session holds for the cell (every
\* cell of the modelled app shows the input's value).
C15_ReadsReflectFrame ==
  [][(GetCellSyncsLive /\ getCell'.result[1].kind = "ok") =>
       getCell'.result[1].value = platform[frameSid].val]_vars

Forwarded(k) ==
  \E j \in 1..Len(posted) :
    /\ posted[j].op = "input"
    /\ posted[j].viewIndex = accepted[k].viewIndex
    /\ posted[j].cell = accepted[k].addr
    /\ posted[j].value = accepted[k].value

\* C16: every write set_cell accepted is eventually posted to the iframe as
\* {op: "input", viewIndex, cell, value}, also when several writes are accepted
\* between two drains.
C16_WritesReachFrame ==
  \A k \in 1..MaxWrites : (Len(accepted) >= k) ~> (Len(accepted) >= k /\ Forwarded(k))

\* C17: get_cell and set_cell called while there is no session return the
\* NoActiveSession error at once: no request is issued to the platform, and
\* the session store, the last url and the platform are as before the call.
C17_NoSessionNoCall ==
  [][/\ (~HasSession /\ getCell.pc = "idle" /\ getCell'.pc # "idle") =>
          /\ getCell'.pc = "done"
          /\ getCell'.result = Some(GetResult("NoActiveSession", << >>, NoAddr, 0, << >>))
          /\ getCell'.req = None /\ getCell'.nInit = 0
          /\ nexsSession' = None
          /\ UNCHANGED <<lastSpreadsheetUrl, pendingInit, platform>>
     /\ (~HasSession /\ setCell.pc = "idle" /\ setCell'.pc # "idle") =>
          /\ setCell'.pc = "done"
          /\ setCell'.result[1].kind = "NoActiveSession"
          /\ setCell'.req = None /\ setCell'.nInteract = 0 /\ setCell'.nInit = 0
          /\ nexsSession' = None
          /\ UNCHANGED <<lastSpreadsheetUrl, pendingInit, platform>>]_vars

C17_Witness ==
  /\ ~HasSession
  /\ lastSpreadsheetUrl # None
  /\ GetCellDone("NoActiveSession") \/ SetCellDone("NoActiveSession")

\* the interact results the platform can answer with: a revision and the
\* cells changed, none or both
DeltaResults ==
  {[ok |-> TRUE, revision |-> n, values |-> vs] :
     n \in 1..MaxRev, vs \in {<< >>} \cup {Snapshot(v) : v \in 0..MaxVal}}

\* C18: after applyDelta calls on a session, in whatever order, the session's
\* revision is the largest revision the applied deltas carried.
C18_RevisionIsMax ==
  HasSession =>
    \A r1, r2 \in DeltaResults :
      applyDelta(applyDelta(Sess, r1), r2).revision =
        IF r1.revision > r2.revision THEN r1.revision ELSE r2.revision

\* C19: applying a delta result a second time changes neither the cell cache
\* nor the revision that applying it once produced.
C19_DeltaIdempotent ==
  HasSession =>
    \A r \in DeltaResults :
      LET once == applyDelta(Sess, r) IN
      /\ applyDelta(once, r).cellCache = once.cellCache
      /\ applyDelta(once, r).revision = once.revision

\* set_cell has applied a delta that changed cells, and applying that delta to
\* the stored session again leaves it as it is
C19_Witness ==
  /\ SetCellDone("ok")
  /\ setCell.result[1].changed # << >>
  /\ HasSession
  /\ \E r \in DeltaResults :
       /\ Changed(r.values) = setCell.result[1].changed
       /\ r.revision = setCell.result[1].revision
       /\ applyDelta(Sess, r) = Sess

\* the part of an entry's key after `sheetName!`
KeyAddr(e) == SubSeq(e.key, Len(e.sheetName) + 2, Len(e.key))

\* the key is the entry's sheet name, "!" and a non-empty upper-case address
WellKeyed(e) ==
  /\ Len(e.key) > Len(e.sheetName) + 1
  /\ SubSeq(e.key, 1, Len(e.sheetName) + 1) = e.sheetName \o <<Bang>>
  /\ KeyAddr(e) = ToUpperCase(KeyAddr(e))

CellRefCases == { <<"a", "1">>, <<"A", "1">>, <<"b", "1">> }

\* C20: every key of the cell cache is sheetName!ADDR with ADDR in upper case,
\* whichever operation stored the entry (init snapshot, interact delta, browser
\* report, backfill, and a cell-map update applied to the session); ADDR is the
\* upper-cased address of the entry, and get_cell's lookup gives the same
\* result for an address and for its upper-case spelling.
C20_KeysUpperCase ==
  HasSession =>
    /\ \A e \in CacheMap(Sess) :
         /\ WellKeyed(e)
         /\ KeyAddr(e) = ToUpperCase(e.ci.addr)
         /\ CacheFind(Sess.cellCache, Some(e.sheetName), e.ci.addr) = Some(e)
    /\ \A cells \in CellMaps :
         \A e \in CacheMap(UpdateNexsCells(Sess, cells, 1)) : WellKeyed(e)
    /\ \A ref \in CellRefCases, sheet \in {None, Some(S1), Some(S2)} :
         GetCellLookup(Sess, sheet, ref) = GetCellLookup(Sess, sheet, ToUpperCase(ref))

\* get_cell found, for a lower-case reference, an entry of a cache that holds
\* a cell the platform reported with a lower-case address
C20_Witness ==
  /\ HasSession
  /\ GetCellDone("ok")
  /\ getCell.cellAddr # ToUpperCase(getCell.cellAddr)
  /\ \E e \in CacheMap(Sess) : e.ci.addr # ToUpperCase(e.ci.addr) /\ WellKeyed(e)

\* the snapshots an init can return: both cells of the app, or the input cell
\* alone
SnapshotInputs ==
  {Snapshot(v) : v \in 0..MaxVal} \cup {<< CellA1(v) >> : v \in 0..MaxVal}

\* C21: a full snapshot applied to an existing session (get_cell's re-init)
\* stores every cell of the snapshot and removes no cache entry whose key the
\* snapshot does not contain.
C21_SnapshotKeepsAbsent ==
  HasSession =>
    \A vs \in SnapshotInputs :
      LET after == GetCellReinit(Sess, [InitResult(platform) EXCEPT !.values = vs]) IN
      /\ EntriesOf(vs) \subseteq CacheMap(after)
      /\ \A e \in CacheMap(Sess) :
           e.key \notin {x.key : x \in EntriesOf(vs)} => e \in CacheMap(after)

\* C22: the session render creates from an init result has in its cell cache
\* one entry per cell of the returned snapshot, under the key made of the sheet
\* name, "!" and the upper-cased address, and no other entry.
C22_InitCacheExact ==
  [][\A i \in 1..Len(pendingInit) :
       (RenderInitOk(i) /\ ~(HasSession /\ Sess.fromBrowser)) =>
         LET values == InitResult(platform).values
             s == nexsSession'[1] IN
         /\ s.sessionId = InitResult(platform).sessionId
         /\ CacheMap(s) = {[key |-> values[k].sn \o <<Bang>> \o ToUpperCase(values[k].ci.addr),
                            sheetName |-> values[k].sn, ci |-> values[k].ci] :
                             k \in 1..Len(values)}
         /\ Len(s.cellCache) = Len(values)]_vars

C22_Witness ==
  /\ HasSession
  /\ ~Sess.fromBrowser
  /\ Sess.sessionId = Len(platform)
  /\ Sess.revision = 1
  /\ CacheKeys(Sess) = {<<"S", "1", "!", "A", "1">>, <<"S", "2", "!", "A", "1">>}
  /\ Len(Sess.cellCache) = 2

SheetArgCases == {None, Some(S1), Some(S2)}
BareRefs == { <<"a", "1">>, <<"B", "1">> }
PrefixedRefs == { [ref |-> S2 \o <<Bang>> \o <<"A", "1">>, sheet |-> S2],
                  [ref |-> S1 \o <<Bang>> \o <<"a", "1">>, sheet |-> S1] }

\* C23: the sheet of a reference is the sheet argument when one is given,
\* else the prefix of the reference before "!", else the sheet name of the
\* first view in view order that is not invisible, else none.
C23_SheetPrecedence ==
  HasSession =>
    LET views == Sess.views
        visible == {i \in 1..Len(views) : ~views[i].isInvisible} IN
    /\ \A sheet \in SheetArgCases \ {None} :
         /\ \A ref \in BareRefs :
              ResolveSheet(sheet, parseCellRef(ref).sheet, views) = sheet
         /\ \A p \in PrefixedRefs :
              ResolveSheet(sheet, parseCellRef(p.ref).sheet, views) = sheet
    /\ \A p \in PrefixedRefs :
         ResolveSheet(None, parseCellRef(p.ref).sheet, views) = Some(p.sheet)
    /\ \A ref \in BareRefs :
         LET r == ResolveSheet(None, parseCellRef(ref).sheet, views) IN
         IF visible = {} THEN r = None
         ELSE \E i \in visible :
                /\ \A j \in visible : i <= j
                /\ r = Some(views[i].sheetName)

\* get_cell resolved a bare reference to S1, the sheet of the second view, the
\* first one that is visible
C23_Witness ==
  /\ HasSession
  /\ Sess.views = AppViews
  /\ GetCellDone("ok")
  /\ getCell.cellAddr = <<"a", "1">>
  /\ getCell.sheetName = Some(S1)
  /\ AppViews[1].isInvisible

\* C24: set_cell whose sheet cannot be resolved returns the AmbiguousSheet
\* error at once: no interact and no init request is issued and the session,
\* the platform and the pending inits are as before the call.
C24_AmbiguousSheetNoCall ==
  [][\A cellRef \in SetRefs, value \in Vals, sheet \in SetSheetArgs :
       (/\ HasSession
        /\ SetCellCall(cellRef, value, sheet)
        /\ sheet = None
        /\ IndexOf(cellRef, Bang) = 0
        /\ \A i \in 1..Len(Sess.views) : Sess.views[i].isInvisible) =>
         /\ setCell'.pc = "done"
         /\ setCell'.result[1].kind = "AmbiguousSheet"
         /\ setCell'.req = None /\ setCell'.nInteract = 0 /\ setCell'.nInit = 0
         /\ UNCHANGED <<nexsSession, platform, pendingInit, lastSpreadsheetUrl>>]_vars

C24_Witness ==
  /\ HasSession
  /\ \A i \in 1..Len(Sess.views) : Sess.views[i].isInvisible
  /\ SetCellDone("AmbiguousSheet")
  /\ setCell.req = None
  /\ setCell.nInteract = 0

\* the positions of the cache a lookup can hit: the exact key when a sheet is
\* resolved, every key ending with !ADDR otherwise
Matches(cache, sheet, addr) ==
  LET upper == ToUpperCase(addr) IN
  IF sheet # None
  THEN {i \in 1..Len(cache) : cache[i].key = sheet[1] \o <<Bang>> \o upper}
  ELSE {i \in 1..Len(cache) :
          /\ Len(cache[i].key) >= Len(upper) + 1
          /\ \A k \in 1..(Len(upper) + 1) :
               cache[i].key[Len(cache[i].key) - Len(upper) - 1 + k] = (<<Bang>> \o upper)[k]}

\* C25: get_cell's lookup returns the entry under the exact key when a sheet
\* is resolved and otherwise the first entry, in cache order, whose key ends
\* with !ADDR; when nothing matches it returns CellNotFound with the distinct
\* sheet names of the cache.
C25_LookupAndMiss ==
  HasSession =>
    \A sheet \in SheetArgCases, addr \in CellRefCases :
      LET cache == Sess.cellCache
          r == GetCellLookup(Sess, sheet, addr)
          hits == Matches(cache, sheet, addr) IN
      IF hits = {}
      THEN /\ r.kind = "CellNotFound"
           /\ {r.sheets[k] : k \in 1..Len(r.sheets)} = {cache[i].sheetName : i \in 1..Len(cache)}
           /\ \A k, l \in 1..Len(r.sheets) : r.sheets[k] = r.sheets[l] => k = l
      ELSE \E i \in hits :
             /\ \A j \in hits : i <= j
             /\ r.kind = "ok"
             /\ r.sheet = cache[i].sheetName
             /\ r.addr = cache[i].ci.addr
             /\ r.value = cache[i].ci.data

\* get_cell returned, for a reference whose sheet did not resolve, the first
\* of two entries whose keys end with the address
C25_Witness ==
  /\ HasSession
  /\ GetCellDone("ok")
  /\ getCell.sheetName = None
  /\ Cardinality(Matches(Sess.cellCache, None, getCell.cellAddr)) = 2
  /\ getCell.result[1].sheet = Sess.cellCache[1].sheetName

\* C26: the view acts only on messages whose origin is the platform origin: a
\* message of another origin gets no "hello" echo, its payload is not parsed,
\* and it leads to no call of the server.
C26_OnlyPlatformOrigin ==
  /\ echoes \subseteq {NexsOrigin}
  /\ parses \subseteq {NexsOrigin}
  /\ callers \subseteq {NexsOrigin}

\* C27: get_cell's wait for the seededFromBrowser flag ends: a poll that finds
\* the flag set, or the deadline passed, goes on to the lookup on the cache as
\* it is, no other poll does, and every wait reaches the lookup.
C27_WaitEnds ==
  /\ [][(getCell.pc = "wait" /\ getCell' # getCell) =>
          IF Sess.seededFromBrowser \/ now >= getCell.deadline
          THEN /\ getCell'.pc = "done"
               /\ getCell'.result =
                    Some(GetCellLookup(Sess, getCell.sheetName, getCell.cellAddr))
               /\ getCell'.result[1].kind \in {"ok", "CellNotFound"}
          ELSE getCell'.pc = "wait"]_vars
  /\ (getCell.pc = "wait") ~> (getCell.pc = "done")

\* get_cell went on after the deadline with a session that was never seeded
C27_Witness ==
  /\ getCell.pc = "done"
  /\ getCell.deadline > 0
  /\ now >= getCell.deadline
  /\ HasSession
  /\ ~Sess.seededFromBrowser
  /\ getCell.result[1].kind = "ok"

\* C28: a delta returned by an interact request is applied only to the session
\* it was requested for: when get_cell or set_cell applies a response whose
\* request carried another sessionId than the store's session has by then
\* (the session was replaced or re-identified during the await), the
\* revision and the cache of the store's session stay as they are.
LateDelta(h) == h.resp # None /\ h.resp[1].ok /\ HasSession /\ h.forSid # Sess.sessionId

C28_LateDeltaDropped ==
  [][(\/ getCell.pc = "sync" /\ getCell'.pc = "done" /\ LateDelta(getCell)
      \/ setCell.pc \in {"interact1", "interact2"} /\ setCell'.pc = "done"
           /\ LateDelta(setCell))
     => /\ nexsSession'[1].revision = Sess.revision
        /\ nexsSession'[1].cellCache = Sess.cellCache]_vars

\* C29: whenever the session is live-bound (fromBrowser) its sessionId is the
\* one of the most recent browser report: a get_cell re-init that began on a
\* session not live-bound and settles on a session a browser report has bound
\* in the meantime leaves the sessionId and the revision of that report alone.
C29_ReinitKeepsReport ==
  [][(getCell.pc = "reinit" /\ getCell'.pc = "done" /\ HasSession /\ Sess.fromBrowser)
     => /\ nexsSession'[1].sessionId = Sess.sessionId
        /\ nexsSession'[1].revision = Sess.revision]_vars

\* C30: once render_nexs_spreadsheet has returned for a URL with a valid app id
\* a backend session exists: a get_cell or set_cell called after the render
\* result does not end with NoActiveSession.
C30_SessionAfterRender ==
  (lastSpreadsheetUrl # None /\ extractNexsUuid(lastSpreadsheetUrl) # None)
    => /\ ~(getCell.pc = "done" /\ getCell.result[1].kind = "NoActiveSession")
       /\ ~(setCell.pc = "done" /\ setCell.result[1].kind = "NoActiveSession")

\* C31: set_cell's recovery re-initiation leaves a fresh backend session that
\* is not live-bound (the sessionId, revision, views and snapshot of the new
\* init, fromBrowser false), and every browser report that can arrive next
\* binds it again: fromBrowser true with the report's sessionId and revision.
C31_RecoveryThenUpgrade ==
  /\ [][(setCell.pc = "reinit" /\ setCell'.pc = "interact2")
         => /\ nexsSession' = Some(SessionFromInit(Sess.appUuid, InitResult(platform)))
            /\ ~nexsSession'[1].fromBrowser
            /\ nexsSession'[1].sessionId = Len(platform) + 1
            /\ nexsSession'[1].sessionId # Sess.sessionId]_vars
  /\ [](setCell.pc = "interact2" /\ HasSession /\ ~Sess.fromBrowser
         => \A B \in ReportsNow :
              LET s == SetNexsSession(nexsSession, lastSpreadsheetUrl, B)[1] IN
              /\ s.fromBrowser
              /\ s.sessionId = B.session_id
              /\ s.revision = B.revision
              /\ s.appUuid = Sess.appUuid)

\* a report has bound the session again while the retried write is in flight
C31_Witness ==
  /\ setCell.pc = "interact2"
  /\ HasSession
  /\ Sess.fromBrowser
  /\ Sess.sessionId = frameSid
  /\ Sess.sessionId # setCell.forSid

\* C32: the session belongs to one app: every cache entry is a cell of the app
\* named by the session's appUuid, and the session's sessionId is a platform
\* session of that app (rendering a second URL of another app while a
\* live-bound session exists neither backfills the new app's cells into the
\* old app's session nor attaches the new frame's sessionId to the old
\* appUuid).
CellOfApp(e, app) ==
  \E v \in 0..MaxVal : \E j \in 1..Len(AppSnapshot(app, v)) :
    AppSnapshot(app, v)[j] = [sn |-> e.sheetName, ci |-> e.ci]

C32_SessionOfOneApp ==
  HasSession =>
    /\ \A i \in 1..Len(Sess.cellCache) : CellOfApp(Sess.cellCache[i], Sess.appUuid)
    /\ Sess.sessionId \in 1..Len(platform) => platform[Sess.sessionId].app = Sess.appUuid

\* C33: a successful set_cell result carries the upper-cased target address,
\* the written value and a viewIndex such that views[viewIndex].sheetName is
\* the target sheet whenever some view has that sheet name (otherwise the
\* index of the first visible view, else 0), next to the revision and the
\* changed cells.
C33_ResultCarriesReplay ==
  (setCell.pc = "done" /\ setCell.result[1].kind = "ok") =>
    LET r == setCell.result[1] IN
    /\ {"revision", "changed", "addr", "value", "viewIndex"} \subseteq DOMAIN r
    /\ r.addr = ToUpperCase(setCell.cellAddr)
    /\ r.value = setCell.value
    /\ r.viewIndex = ViewIndex(Sess.views, setCell.sheetName)

\* C34: update_nexs_cells stores the cells of cells[i] under the sheet name of
\* the session's views[i], skips every index i the session has no view for,
\* never changes sessionId or revision, and is a no-op when no session exists.
\* Per-view cell maps as the iframe can send them: those of the app's two
\* views, the same followed by the map of a third view, and none.
UpdateInputs ==
  CellMaps
  \cup {m \o << << [addr |-> <<"b", "1">>,
                   ci |-> [addr |-> <<"b", "1">>, data |-> MaxVal]] >> >> : m \in CellMaps}
  \cup {<< >>}

\* the entry update_nexs_cells writes for the k-th cell of cells[i]
Written(session, cells, i, k) ==
  [key |-> CacheKey(session.views[i].sheetName, cells[i][k].addr),
   sheetName |-> session.views[i].sheetName, ci |-> cells[i][k].ci]

\* the cells update_nexs_cells stores: those of a view index with a sheet name
Stored(session, cells) ==
  {p \in (1..Len(cells)) \X (1..MaxVal + 1) :
     /\ p[1] <= Len(session.views)
     /\ session.views[p[1]].sheetName # << >>
     /\ p[2] <= Len(cells[p[1]])}

C35_InitialTagOnly ==
  /\ [](\A i \in 1..Len(viewCalls) :
          /\ viewCalls[i].from.kind = "json"
          /\ viewCalls[i].from.op \in {"initApp", "updateCellMap"}
          /\ viewCalls[i].isInitApp <=> viewCalls[i].from.op = "initApp"
          /\ viewCalls[i].cells = viewCalls[i].from.cells)
  /\ [][(/\ nexsSession' # None
          /\ nexsSession'[1].seededFromBrowser
          /\ ~(HasSession /\ Sess.seededFromBrowser))
         => /\ viewCalls # << >>
            /\ viewCalls' = Tail(viewCalls)
            /\ viewCalls[1].isInitApp
            /\ viewCalls[1].from.op = "initApp"]_vars

\* an initial report has seeded the session
C35_Witness ==
  /\ HasSession
  /\ Sess.seededFromBrowser
  /\ callers # {}
  /\ viewCalls # << >>
  /\ ~viewCalls[1].isInitApp

\* the URL app.ontoolresult takes a result for: structuredContent.app_url, else
\* the URL captured from the tool input
ResultUrl(r) == IF r.app_url # None THEN r.app_url ELSE capturedUrl

\* the step is app.ontoolresult handling the result r
Handles(r) == r \in inbox /\ inbox' = inbox \ {r}

\* C36: a set_cell tool result delivered to the view, success or error,
\* never removes or remounts the mounted iframe: after it is handled the same
\* iframe is still in the root.
C36_SetCellResultKeepsFrame ==
  [][\A r \in inbox :
       (Handles(r) /\ r.tool = "set_cell" /\ root.kind = "iframe") => root' = root]_vars

C38_RestoreNeverOverMount ==
  /\ [](root.kind = "iframe" => mounted)
  /\ [][(timer.pc = "armed" /\ timer'.pc = "called")
         => ~mounted /\ root.kind # "iframe"]_vars
  /\ [][(timer.pc = "answered" /\ timer'.pc = "done")
         => IF timer.url # None /\ ~mounted /\ root.kind # "iframe"
            THEN /\ root' = MountSpreadsheet(root, mounted, timer.url).root
                 /\ root'.kind = "iframe" => root'.url = Some(timer.url)
            ELSE root' = root /\ mounted' = mounted]_vars

\* restore's result arrives with a URL after a tool result has mounted a frame
C38_Witness ==
  /\ timer.pc = "answered"
  /\ timer.url # None
  /\ StartsWithPlatform(timer.url)
  /\ mounted
  /\ root.kind = "iframe"

\* the render results the server returns in this step
Returns == {r \in inbox' \ inbox : r.tool = "render"}

\* C39: render_nexs_spreadsheet always returns a success result carrying
\* app_url and records that URL as the last rendered one, with or without an
\* app id in it and without touching the session; the stored URL changes only
\* to a URL whose render result goes out, so restore_nexs_spreadsheet returns
\* the last rendered URL, and null while none was rendered (then no init is
\* pending and no session is stored); an init that settles leaves the URL
\* alone, and one that fails leaves the existing session unchanged.
C39_RenderAlwaysSucceeds ==
  /\ [](lastSpreadsheetUrl = None => pendingInit = << >> /\ ~HasSession)
  /\ [][\A r \in Returns :
         /\ r.sent # None
         /\ lastSpreadsheetUrl' = r.sent[1]
         /\ nexsSession' = nexsSession
         /\ (extractNexsUuid(r.sent[1]) = None => pendingInit' = pendingInit)]_vars
  /\ [][lastSpreadsheetUrl' # lastSpreadsheetUrl
         => /\ \E r \in inbox' : r.tool = "render" /\ r.sent = Some(lastSpreadsheetUrl')
            /\ nexsSession' = nexsSession]_vars
  /\ [][(timer.pc = "called" /\ timer'.pc = "answered")
         => timer'.url = lastSpreadsheetUrl]_vars
  /\ [][Len(pendingInit') < Len(pendingInit)
         => /\ lastSpreadsheetUrl' = lastSpreadsheetUrl
            /\ platform' = platform => nexsSession' = nexsSession]_vars

\* restore has returned a URL without app id, rendered after a render whose
\* init gave the stored session
C39_Witness ==
  /\ timer.pc = "answered"
  /\ timer.url = UrlNoUuid
  /\ HasSession
  /\ lastSpreadsheetUrl = UrlNoUuid

====
